---- MODULE Spec2Model ----
(***************************************************************************)
(* The spec-document patch pipeline of pipeline/scripts/fix_specs.py.      *)
(*                                                                         *)
(* A document is a sequence of lexemes.  A lexeme is a piece of text that  *)
(* the regular expressions and string tests of fix_specs.py never look     *)
(* inside: a keyword ("Name:", "%files"), a word, one newline, a run of    *)
(* blanks, a quote, an equals sign.  The concatenation of the lexemes is   *)
(* the text of the document; every anchor of the code (^, $, \s, \S, \b,   *)
(* [^\n], "in", startswith, strip) is evaluated on the lexemes by the      *)
(* character classes declared below.                                       *)
(***************************************************************************)
EXTENDS Integers, Sequences, FiniteSets, TLC

VARIABLES
    tmpl,      \* contents of repos/<pkg>/template.spec, or NoFile
    spec,      \* contents of repos/<pkg>/<pkg-hyphen>.spec, or NoFile
    doc,       \* the text held in memory (original / text / new_text)
    input,     \* the text the current run started from
    pc,        \* position of main(), or "alone" for a transform taken alone
    runs,      \* number of completed fix_specs runs on the package
    first,     \* the text written by the first run
    applied,   \* the transforms applied alone so far, in order
    prev,      \* the text before the last transform
    driver,    \* the batch driver whose main() is running
    pkg_list,  \* the lines of pkg_list.txt, each split into its fields
    pkgs,      \* the entries (pkg_name, pkg_path) loaded from the list
    force,     \* args.force
    tasks,     \* per entry: position and locals of its process_* call
    count,     \* the counters of main()
    repos,     \* per package name: the files of repos/<pkg_name>/
    tree,      \* the entries of the package directory, as relative paths
    pending,   \* the entries tarfile.add has still to visit
    members,   \* the member names written to the archive, in order
    naming,    \* a package, a distro and a version, and the names derived from them
    lineno,    \* the number of lines of the package list read so far
    warnings,  \* the line numbers load_pkg_list warned about
    args,      \* the options of the program: skip_delete_remote, no_clean_repos, dry_run
    files,     \* the paths that exist: the package list, repos/ and its old contents, the scripts
    env,       \* GITEE_USER and GITEE_TOKEN are set
    remote,    \* the repositories the user owns on Gitee
    child,     \* the subprocess of the current run_step
    steps,     \* the steps run_pipeline started, in order, with their exit status
    exit_status,  \* the exit status of the program
    processed, \* a script started on its own went on to its packages
    answer,    \* what the user typed at the upload prompt
    gitee,     \* the repository of each name on the remote account
    link_entries, \* the entries main() of upload_to_gitee collected
    links_file,   \* eulermaker_links.txt, and whether writing it raised OSError
    success,   \* packages created, pushed and made public
    failed     \* packages that failed or raised

\* the state of the text pipeline
textVars == <<tmpl, spec, doc, input, runs, first, applied, prev>>

\* the state of a batch driver
batchVars == <<driver, pkg_list, pkgs, force, tasks, count, repos>>

\* the state of the fallback archive walk
walkVars == <<tree, pending, members>>

\* the state of the derivation of names
nameVars == <<naming>>

\* the state of the reading of the package list
listVars == <<lineno, warnings>>

\* the state of run_pipeline and of the start of a script
pipeVars == <<args, files, env, remote, child, steps, exit_status, processed, answer>>

\* the state of upload_to_gitee
uploadVars == <<gitee, link_entries, links_file, success, failed>>

\* the state outside the text pipeline, the batch drivers and the archive walk
extVars == <<nameVars, listVars, pipeVars, uploadVars>>

\* what the derivation of names leaves alone
restOfNaming == <<textVars, batchVars, walkVars, listVars, pipeVars, uploadVars>>

\* what the reading of the package list leaves alone, batch state apart
restOfList == <<textVars, walkVars, nameVars, pipeVars, uploadVars>>

\* what run_pipeline and the start of a script leave alone
restOfPipe == <<textVars, pkg_list, pkgs, force, tasks, count, repos, walkVars,
                nameVars, listVars, uploadVars>>

vars == <<tmpl, spec, doc, input, pc, runs, first, applied, prev,
          driver, pkg_list, pkgs, force, tasks, count, repos,
          tree, pending, members, naming, lineno, warnings, args, files, env, remote, child, steps, exit_status, processed, answer, gitee, link_entries, links_file, success, failed>>

-----------------------------------------------------------------------------
(* Lexemes and their character classes *)

NL == "\n"
SP == " "
PAD == "           "
QUOTE == "\""
EQ == "="

NoFile == <<"<no file>">>

\* canonical name and target prefix of the package being patched
rpm_name == "ros-jazzy-foo-bar"
ros_prefix == "/opt/ros/jazzy"

ARCHIVE == "%{name}_%{version}.orig.tar.gz"
PYPATH == "$ROS_PREFIX/lib64/python%{python3_version}/site-packages:$ROS_PREFIX/lib/python%{python3_version}/site-packages:${PYTHONPATH}"

\* \s : lexemes made of whitespace only
SpaceToks == {NL, SP, PAD}

IsSpace(t) == t \in SpaceToks

\* lexemes whose first character is not a word character [A-Za-z0-9_]
NonWordStartToks ==
    SpaceToks \cup
    {QUOTE, EQ, "#", "--", "--prefix", "--root",
     "%bcond_without", "%global", "%define", "%{nil}", "%files", "%changelog",
     "%build", "%install", "%check", "%py3_install", "%cmake3", "%description",
     "-DCMAKE_INSTALL_PREFIX", "-DAMENT_PREFIX_PATH", "-DCMAKE_PREFIX_PATH",
     "-DBUILD_TESTING", "/usr", "/my", "/x", ros_prefix, ARCHIVE, PYPATH}

WordStart(t) == t \notin NonWordStartToks

\* lexemes that contain the substring "--"
DashDashToks == {"--", "--prefix", "--root"}

-----------------------------------------------------------------------------
(* String primitives of Python, on lexeme sequences *)

Range(s) == {s[i] : i \in 1..Len(s)}

Tail2(s, i) == SubSeq(s, i, Len(s))

\* ^ under re.MULTILINE: start of text or just after a newline
AtLineStart(s, i) == i = 1 \/ s[i - 1] = NL

RECURSIVE SkipSpace(_, _)
\* first index >= i that holds no whitespace (Len+1 if none): greedy \s*
SkipSpace(s, i) ==
    IF i > Len(s) \/ ~IsSpace(s[i]) THEN i ELSE SkipSpace(s, i + 1)

RECURSIVE SkipNonSpace(_, _)
\* greedy \S*
SkipNonSpace(s, i) ==
    IF i > Len(s) \/ IsSpace(s[i]) THEN i ELSE SkipNonSpace(s, i + 1)

RECURSIVE LineEnd(_, _)
\* first index >= i that holds a newline (Len+1 if none): greedy .* / [^\n]*
LineEnd(s, i) ==
    IF i > Len(s) \/ s[i] = NL THEN i ELSE LineEnd(s, i + 1)

RECURSIVE SkipNL(_, _)
SkipNL(s, i) ==
    IF i > Len(s) \/ s[i] # NL THEN i ELSE SkipNL(s, i + 1)

RECURSIVE LastNonSpace(_, _)
\* last index <= i that holds no whitespace (0 if none)
LastNonSpace(s, i) ==
    IF i = 0 \/ ~IsSpace(s[i]) THEN i ELSE LastNonSpace(s, i - 1)

\* str.lstrip("\n")
LStripNL(s) == Tail2(s, SkipNL(s, 1))

\* str.lstrip()
LStrip(s) == Tail2(s, SkipSpace(s, 1))

\* str.rstrip()
RStrip(s) == SubSeq(s, 1, LastNonSpace(s, Len(s)))

\* str.strip()
Strip(s) == LStrip(RStrip(s))

RECURSIVE SplitKeep(_)
\* str.splitlines(keepends=True)
SplitKeep(s) ==
    IF s = <<>> THEN <<>>
    ELSE LET e == LineEnd(s, 1)
         IN  IF e > Len(s) THEN <<s>>
             ELSE <<SubSeq(s, 1, e)>> \o SplitKeep(Tail2(s, e + 1))

\* line.rstrip("\n") of a line of SplitKeep
DropNL(l) == IF l # <<>> /\ l[Len(l)] = NL THEN SubSeq(l, 1, Len(l) - 1) ELSE l

\* str.splitlines()
SplitLines(s) ==
    LET ls == SplitKeep(s) IN [i \in 1..Len(ls) |-> DropNL(ls[i])]

RECURSIVE Join(_)
\* "".join(lines)
Join(ls) == IF ls = <<>> THEN <<>> ELSE Head(ls) \o Join(Tail(ls))

\* str.startswith(tok) for a keyword lexeme
StartsWith(l, tok) == l # <<>> /\ l[1] = tok


-----------------------------------------------------------------------------
(* The eight transforms of fix_specs.py *)

BcondTests == <<"%bcond_without", SP, "tests">>
BcondWeakDeps == <<"%bcond_without", SP, "weak_deps">>

needed == <<BcondTests, BcondWeakDeps>>

\* the stripped lines that start with %bcond_without
existing(text) ==
    LET ls == SplitLines(text)
    IN  {Strip(ls[i]) : i \in {j \in 1..Len(ls) : StartsWith(Strip(ls[j]), "%bcond_without")}}

RECURSIVE JoinNL(_)
\* "\n".join(lines)
JoinNL(ls) ==
    IF ls = <<>> THEN <<>>
    ELSE IF Len(ls) = 1 THEN ls[1]
    ELSE ls[1] \o <<NL>> \o JoinNL(Tail(ls))

ensure_bconds(text) ==
    LET ex == existing(text)
        missing == SelectSeq(needed, LAMBDA l : l \notin ex)
    IN  IF missing = <<>> THEN text
        ELSE JoinNL(missing) \o <<NL, NL>> \o LStripNL(text)

debug_line == <<"%global", SP, "debug_package", SP, "%{nil}", NL>>

\* re.search(r"^%(?:global|define)\s+debug_package\b", text, re.MULTILINE) at i
DebugDirectiveAt(s, i) ==
    /\ AtLineStart(s, i)
    /\ s[i] \in {"%global", "%define"}
    /\ i + 1 <= Len(s)
    /\ IsSpace(s[i + 1])
    /\ LET a == SkipSpace(s, i + 1)
       IN  /\ a <= Len(s)
           /\ s[a] = "debug_package"
           /\ (a + 1 > Len(s) \/ ~WordStart(s[a + 1]))

HasDebugDirective(s) == \E i \in 1..Len(s) : DebugDirectiveAt(s, i)

RECURSIVE SkipBlankLines(_, _)
\* while insert_pos < len(lines) and lines[insert_pos].strip() == "" (1-based)
SkipBlankLines(lines, p) ==
    IF p <= Len(lines) /\ Strip(lines[p]) = <<>>
    THEN SkipBlankLines(lines, p + 1) ELSE p

\* ensure_debug_disabled that ignores the %bcond_without lines: the directive
\* is always put at the very beginning
ensure_debug_disabled_on_top(text) ==
    IF HasDebugDirective(text) THEN text
    ELSE debug_line \o <<NL>> \o LStripNL(text)

ensure_debug_disabled(text) ==
    IF HasDebugDirective(text) THEN text
    ELSE
        LET lines == SplitKeep(text)
            bconds == {i \in 1..Len(lines) : StartsWith(LStrip(lines[i]), "%bcond_without")}
        IN  IF bconds # {}
            THEN LET last_bcond_idx == CHOOSE i \in bconds : \A j \in bconds : j <= i
                     insert_pos == SkipBlankLines(lines, last_bcond_idx + 1)
                 IN  Join(SubSeq(lines, 1, insert_pos - 1)) \o debug_line \o <<NL>>
                         \o Join(SubSeq(lines, insert_pos, Len(lines)))
            ELSE debug_line \o <<NL>> \o LStripNL(text)

RECURSIVE name_sub(_, _, _)
\* re.compile(r"^Name:\s*.*$", re.MULTILINE).sub(replacement, text), from index i
name_sub(s, i, replacement) ==
    IF i > Len(s) THEN <<>>
    ELSE IF AtLineStart(s, i) /\ s[i] = "Name:"
         THEN replacement \o name_sub(s, LineEnd(s, SkipSpace(s, i + 1)), replacement)
         ELSE <<s[i]>> \o name_sub(s, i + 1, replacement)

NameAt(s, i) == AtLineStart(s, i) /\ s[i] = "Name:"

\* fix_name without the search: the canonical line is always put on top
fix_name_always_insert(text, name) ==
    <<"Name:", PAD, name, NL>> \o text

fix_name(text, name) ==
    LET replacement == <<"Name:", PAD, name>>
    IN  IF \E i \in 1..Len(text) : NameAt(text, i)
        THEN name_sub(text, 1, replacement)
        ELSE replacement \o <<NL>> \o text

SourceAt(s, i) == AtLineStart(s, i) /\ s[i] \in {"Source0:", "Source:"}

RECURSIVE source_sub(_, _)
\* re.compile(r"^(Source0?:\s*).*$", re.MULTILINE).sub(r"\1%{name}_%{version}.orig.tar.gz", text)
source_sub(s, i) ==
    IF i > Len(s) THEN <<>>
    ELSE IF SourceAt(s, i)
         THEN LET a == SkipSpace(s, i + 1)
              IN  SubSeq(s, i, a - 1) \o <<ARCHIVE>> \o source_sub(s, LineEnd(s, a))
         ELSE <<s[i]>> \o source_sub(s, i + 1)

LicenseAt(s, i) == AtLineStart(s, i) /\ s[i] = "License:"

new_line == <<"Source0:", SP, ARCHIVE>>

\* fix_source0 whose fallback puts the new line on top of the document
fix_source0_insert_on_top(text) ==
    IF \E i \in 1..Len(text) : SourceAt(text, i)
    THEN source_sub(text, 1)
    ELSE new_line \o <<NL>> \o text

fix_source0(text) ==
    IF \E i \in 1..Len(text) : SourceAt(text, i)
    THEN source_sub(text, 1)
    ELSE
        LET lic == {i \in 1..Len(text) : LicenseAt(text, i)}
        IN  IF lic # {}
            THEN LET m == CHOOSE i \in lic : \A j \in lic : i <= j
                     pos == LineEnd(text, SkipSpace(text, m + 1))
                 IN  SubSeq(text, 1, pos - 1) \o <<NL>> \o new_line \o Tail2(text, pos)
            ELSE RStrip(text) \o <<NL>> \o new_line \o <<NL>>

RECURSIVE SkipValue(_, _)
\* greedy [^\s"]*
SkipValue(s, i) ==
    IF i > Len(s) \/ IsSpace(s[i]) \/ s[i] = QUOTE THEN i ELSE SkipValue(s, i + 1)

RECURSIVE cmake_sub(_, _, _, _)
\* re.sub(FLAG(?:\s+|=)\"?[^\s\"]*\"?, FLAG="<prefix>", text), from index i
cmake_sub(s, i, flag, prefix) ==
    IF i > Len(s) THEN <<>>
    ELSE IF s[i] = flag /\ i + 1 <= Len(s) /\ (IsSpace(s[i + 1]) \/ s[i + 1] = EQ)
         THEN LET a == IF IsSpace(s[i + 1]) THEN SkipSpace(s, i + 1) ELSE i + 2
                  b == IF a <= Len(s) /\ s[a] = QUOTE THEN a + 1 ELSE a
                  c == SkipValue(s, b)
                  d == IF c <= Len(s) /\ s[c] = QUOTE THEN c + 1 ELSE c
              IN  <<flag, EQ, QUOTE, prefix, QUOTE>> \o cmake_sub(s, d, flag, prefix)
         ELSE <<s[i]>> \o cmake_sub(s, i + 1, flag, prefix)

fix_cmake_prefixes(text, prefix) ==
    LET t1 == cmake_sub(text, 1, "-DCMAKE_INSTALL_PREFIX", prefix)
        t2 == cmake_sub(t1, 1, "-DAMENT_PREFIX_PATH", prefix)
    IN  cmake_sub(t2, 1, "-DCMAKE_PREFIX_PATH", prefix)

RECURSIVE NextQuote(_, _)
NextQuote(s, i) ==
    IF i > Len(s) \/ s[i] = QUOTE THEN i ELSE NextQuote(s, i + 1)

RECURSIVE prefix_sub(_, _, _)
\* re.sub(r"(--prefix(?:\s+|=))(\"[^\"]*\"|\S+)", rf'\1"{ros_prefix}"', line)
prefix_sub(l, i, prefix) ==
    IF i > Len(l) THEN <<>>
    ELSE IF l[i] = "--prefix" /\ i + 1 <= Len(l) /\ (IsSpace(l[i + 1]) \/ l[i + 1] = EQ)
         THEN LET a == IF IsSpace(l[i + 1]) THEN SkipSpace(l, i + 1) ELSE i + 2
              IN  IF a > Len(l) \/ IsSpace(l[a])
                  THEN <<l[i]>> \o prefix_sub(l, i + 1, prefix)
                  ELSE LET q == NextQuote(l, a + 1)
                           e == IF l[a] = QUOTE /\ q <= Len(l)
                                THEN q + 1 ELSE SkipNonSpace(l, a)
                       IN  SubSeq(l, i, a - 1) \o <<QUOTE, prefix, QUOTE>>
                               \o prefix_sub(l, e, prefix)
         ELSE <<l[i]>> \o prefix_sub(l, i + 1, prefix)

py3_line(line, prefix) ==
    IF "%py3_install" \notin Range(line) THEN line
    ELSE IF "--prefix" \in Range(line) THEN prefix_sub(line, 1, prefix)
    ELSE LET stripped == DropNL(line)
         IN  IF Range(stripped) \cap DashDashToks # {}
             THEN stripped \o <<SP, "--prefix", SP, QUOTE, prefix, QUOTE, NL>>
             ELSE stripped \o <<SP, "--", SP, "--prefix", SP, QUOTE, prefix, QUOTE, NL>>

fix_py3_install(text, prefix) ==
    LET lines == SplitKeep(text)
    IN  Join([i \in 1..Len(lines) |-> py3_line(lines[i], prefix)])

MARKER == <<"#", SP, "BEGIN", SP, "ros_pythonpath">>

\* "# BEGIN ros_pythonpath" in text
HasMarkerAt(s, i) ==
    i + Len(MARKER) - 1 <= Len(s) /\ SubSeq(s, i, i + Len(MARKER) - 1) = MARKER

HasMarker(s) == \E i \in 1..Len(s) : HasMarkerAt(s, i)

block(prefix) ==
    MARKER \o <<NL>>
    \o <<"export", SP, "ROS_PREFIX", EQ, QUOTE, prefix, QUOTE, NL>>
    \o <<"export", SP, "PYTHONPATH", EQ, QUOTE, PYPATH, QUOTE, NL>>
    \o <<"#", SP, "END", SP, "ros_pythonpath", NL>>

\* re.compile(rf"(^%{section}\b[^\n]*\n)", re.MULTILINE) matches at i
SectionAt(s, i, header) ==
    /\ AtLineStart(s, i)
    /\ s[i] = header
    /\ i + 1 <= Len(s)
    /\ ~WordStart(s[i + 1])
    /\ LineEnd(s, i + 1) <= Len(s)

inject_section(text, header, prefix) ==
    LET ms == {i \in 1..Len(text) : SectionAt(text, i, header)}
    IN  IF ms = {} THEN text
        ELSE LET m == CHOOSE i \in ms : \A j \in ms : i <= j
                 insert_pos == LineEnd(text, m + 1)
             IN  SubSeq(text, 1, insert_pos) \o block(prefix) \o <<NL>>
                     \o Tail2(text, insert_pos + 1)

inject_ros_pythonpath(text, prefix) ==
    IF HasMarker(text) THEN text
    ELSE inject_section(
             inject_section(
                 inject_section(text, "%build", prefix),
                 "%install", prefix),
             "%check", prefix)

\* re.compile(r"^%changelog\b", re.MULTILINE) matches at i
ChangelogAt(s, i) ==
    /\ AtLineStart(s, i)
    /\ s[i] = "%changelog"
    /\ (i + 1 > Len(s) \/ ~WordStart(s[i + 1]))

\* ^%files[^\n]*\n matches at i
FilesAt(s, i) ==
    /\ AtLineStart(s, i)
    /\ s[i] = "%files"
    /\ LineEnd(s, i) <= Len(s)

new_block(prefix) == <<"%files", NL, prefix, NL>>

\* fix_files_section with a greedy body (.* for .*?): up to the last %changelog
fix_files_section_greedy(text, prefix) ==
    LET cls == {i \in 1..Len(text) : ChangelogAt(text, i)}
        fs == {i \in 1..Len(text) :
                  FilesAt(text, i) /\ \E k \in cls : k > LineEnd(text, i)}
    IN  IF fs # {}
        THEN LET mstart == CHOOSE i \in fs : \A j \in fs : i <= j
                 mend == CHOOSE k \in cls : \A j \in cls : j <= k
             IN  SubSeq(text, 1, mstart - 1) \o new_block(prefix) \o Tail2(text, mend)
        ELSE IF cls # {}
        THEN LET c == CHOOSE k \in cls : \A j \in cls : k <= j
             IN  SubSeq(text, 1, c - 1) \o new_block(prefix) \o <<NL>> \o Tail2(text, c)
        ELSE RStrip(text) \o <<NL, NL>> \o new_block(prefix) \o <<NL>>

fix_files_section(text, prefix) ==
    LET cls == {i \in 1..Len(text) : ChangelogAt(text, i)}
        fs == {i \in 1..Len(text) :
                  FilesAt(text, i) /\ \E k \in cls : k > LineEnd(text, i)}
    IN  IF fs # {}
        THEN LET mstart == CHOOSE i \in fs : \A j \in fs : i <= j
                 after == {k \in cls : k > LineEnd(text, mstart)}
                 mend == CHOOSE k \in after : \A j \in after : k <= j
             IN  SubSeq(text, 1, mstart - 1) \o new_block(prefix) \o Tail2(text, mend)
        ELSE IF cls # {}
        THEN LET c == CHOOSE k \in cls : \A j \in cls : k <= j
             IN  SubSeq(text, 1, c - 1) \o new_block(prefix) \o <<NL>> \o Tail2(text, c)
        ELSE RStrip(text) \o <<NL, NL>> \o new_block(prefix) \o <<NL>>


patch_spec_text(text, name, prefix) ==
    fix_files_section(
        inject_ros_pythonpath(
            fix_py3_install(
                fix_cmake_prefixes(
                    fix_source0(
                        fix_name(
                            ensure_debug_disabled(
                                ensure_bconds(text)),
                            name)),
                    prefix),
                prefix),
            prefix),
        prefix)

\* template.spec if it exists, else the only other .spec of the directory
find_input_spec == IF tmpl # NoFile THEN tmpl ELSE spec

-----------------------------------------------------------------------------
(* State of the batch drivers and of the archive walk *)

\* package names and package paths that occur in the lists
Names == {"a", "b"}
PkgPaths == {"p", "q"}

\* the counters of the three main() functions
Counters ==
    {"total",
     "bloom_ok", "bloom_error", "bloom_timeout",
     "copied", "skipped_existing", "missing_source",
     "git_ok", "fb_ok", "skipped_exist", "no_version", "no_git", "failed",
     "patched", "skipped"}

ZeroCount == [c \in Counters |-> 0]

\* repos/<pkg_name>/ with no archive and no template.spec
EmptyRepo == [archive |-> "none", template |-> "none"]

\* no batch driver is running
NoBatch ==
    /\ driver = "none"
    /\ pkg_list = <<>>
    /\ pkgs = <<>>
    /\ force = FALSE
    /\ tasks = <<>>
    /\ count = ZeroCount
    /\ repos = [n \in Names |-> EmptyRepo]

\* no archive is being written
NoWalk ==
    /\ tree = {}
    /\ pending = <<>>
    /\ members = <<>>

NoNaming == naming = [pkg_name |-> <<>>]

NoList == lineno = 0 /\ warnings = <<>>

\* no subprocess
NoChild == [script |-> "none", stdin |-> <<>>, at |-> "none", answer |-> <<>>, rc |-> 0]

\* the options when none is given on the command line
DefaultArgs == [skip_delete_remote |-> FALSE, no_clean_repos |-> FALSE, dry_run |-> FALSE]

\* no pipeline and no script start-up is running; the options are a
PipeIdle(a) ==
    /\ args = a
    /\ files = {}
    /\ env = FALSE
    /\ remote = "no repos"
    /\ child = NoChild
    /\ steps = <<>>
    /\ exit_status = 0
    /\ processed = FALSE
    /\ answer = <<>>

NoPipe == PipeIdle(DefaultArgs)

\* eulermaker_links.txt does not exist
NoLinks == [exists |-> FALSE, entries |-> <<>>, error |-> FALSE]

\* upload_to_gitee is not running
NoUpload ==
    /\ gitee = [n \in Names |-> "none"]
    /\ link_entries = <<>>
    /\ links_file = NoLinks
    /\ success = 0
    /\ failed = 0

\* nothing but the text pipeline, a batch driver or the archive walk is running
NoExt == NoNaming /\ NoList /\ NoPipe /\ NoUpload

\* the text pipeline is not running
NoText ==
    /\ tmpl = NoFile
    /\ spec = NoFile
    /\ doc = <<>>
    /\ input = <<>>
    /\ runs = 0
    /\ first = NoFile
    /\ applied = <<>>
    /\ prev = <<>>

\* only the derivation of names is running
IdleButNaming == NoText /\ NoBatch /\ NoWalk /\ NoList /\ NoPipe /\ NoUpload

\* only the reading of the package list is running
IdleButList == NoText /\ NoWalk /\ NoNaming /\ NoPipe /\ NoUpload

\* only run_pipeline or the start of a script is running
IdleButPipe == NoText /\ NoWalk /\ NoNaming /\ NoList /\ NoUpload

-----------------------------------------------------------------------------
(* Input documents *)

MaxLines == 3
MaxFilesLines == 4
MaxRuns == 2

SeqsUpTo(S, n) == UNION {[1..k -> S] : k \in 0..n}

\* the lines joined by newlines, with or without a newline after the last one
MkDoc(ls, nl) == JoinNL(ls) \o (IF nl THEN <<NL>> ELSE <<>>)

DocsOf(Lines, n) == {MkDoc(ls, nl) : ls \in SeqsUpTo(Lines, n), nl \in BOOLEAN}

\* lines of the template.spec documents given to main()
MainLines ==
    {BcondTests,
     <<"%global", SP, "debug_package", SP, "%{nil}">>,
     <<"Name:", SP, "a">>,
     <<"Source0:", SP, "b">>,
     <<"Source0:">>,
     <<"License:", SP, "MIT">>,
     <<"%build">>,
     <<"%files">>,
     <<"%changelog">>,
     <<"x">>}

MainDocs == DocsOf(MainLines, MaxLines)

-----------------------------------------------------------------------------
(* main(): one package of the list, patched by successive fix_specs runs *)

Init ==
    /\ tmpl \in MainDocs
    /\ spec = NoFile
    /\ doc = <<>>
    /\ input = <<>>
    /\ pc = "find_input_spec"
    /\ runs = 0
    /\ first = NoFile
    /\ applied = <<>>
    /\ prev = <<>>
    /\ NoBatch
    /\ NoWalk
    /\ NoExt

ReadInput ==
    /\ pc = "find_input_spec"
    /\ runs < MaxRuns
    /\ find_input_spec # NoFile
    /\ doc' = find_input_spec
    /\ input' = find_input_spec
    /\ pc' = "ensure_bconds"
    /\ UNCHANGED <<tmpl, spec, runs, first, applied, prev, batchVars, walkVars, extVars>>

Step(at, text, next) ==
    /\ pc = at
    /\ prev' = doc
    /\ doc' = text
    /\ pc' = next
    /\ UNCHANGED <<tmpl, spec, input, runs, first, applied, batchVars, walkVars, extVars>>

DoEnsureBconds == Step("ensure_bconds", ensure_bconds(doc), "ensure_debug_disabled")

DoEnsureDebugDisabled ==
    Step("ensure_debug_disabled", ensure_debug_disabled(doc), "fix_name")

DoFixName == Step("fix_name", fix_name(doc, rpm_name), "fix_source0")

DoFixSource0 == Step("fix_source0", fix_source0(doc), "fix_cmake_prefixes")

DoFixCmakePrefixes ==
    Step("fix_cmake_prefixes", fix_cmake_prefixes(doc, ros_prefix), "fix_py3_install")

DoFixPy3Install ==
    Step("fix_py3_install", fix_py3_install(doc, ros_prefix), "inject_ros_pythonpath")

DoInjectRosPythonpath ==
    Step("inject_ros_pythonpath", inject_ros_pythonpath(doc, ros_prefix), "fix_files_section")

DoFixFilesSection ==
    Step("fix_files_section", fix_files_section(doc, ros_prefix), "write")

\* the output spec is written, then template.spec is removed
WriteOutput ==
    /\ pc = "write"
    /\ spec' = doc
    /\ tmpl' = NoFile
    /\ runs' = runs + 1
    /\ first' = IF runs = 0 THEN doc ELSE first
    /\ pc' = "find_input_spec"
    /\ UNCHANGED <<doc, input, applied, prev, batchVars, walkVars, extVars>>

Next ==
    \/ ReadInput
    \/ DoEnsureBconds
    \/ DoEnsureDebugDisabled
    \/ DoFixName
    \/ DoFixSource0
    \/ DoFixCmakePrefixes
    \/ DoFixPy3Install
    \/ DoInjectRosPythonpath
    \/ DoFixFilesSection
    \/ WriteOutput

Spec == Init /\ [][Next]_vars


-----------------------------------------------------------------------------
(* The transforms taken alone: a document is drawn, then transforms are     *)
(* applied to it one after the other.                                       *)

MaxApply == 2

TransformLines ==
    {BcondTests,
     <<"Name:">>,
     <<"Name:", SP, "a">>,
     <<"Source:", SP, "b">>,
     <<"License:", SP, "MIT">>,
     <<"%build">>,
     <<"%files">>,
     <<"%changelog">>,
     <<"%py3_install">>,
     <<"%cmake3", SP, "-DCMAKE_INSTALL_PREFIX", EQ, "/usr">>,
     <<"x">>,
     <<>>}

OrderLines ==
    {<<"License:", SP, "MIT">>,
     <<"License:">>,
     <<"Name:", SP, "a">>,
     <<"Source:", SP, "b">>,
     <<"x">>,
     <<SP>>,
     <<>>}

FilesLines ==
    {<<"%files">>,
     <<"%files", SP, "devel">>,
     <<"%changelog">>,
     <<"%build">>,
     <<"x">>,
     <<>>}

\* the three prefix-bearing flags of fix_cmake_prefixes
CmakeFlags == {"-DCMAKE_INSTALL_PREFIX", "-DAMENT_PREFIX_PATH", "-DCMAKE_PREFIX_PATH"}

MaxCmakeLines == 2

\* a flag joined to its old value by = or by a blank; the value unquoted,
\* quoted, or quoted with a space inside
CmakeArgs ==
    {<<f>> \o sep \o v :
        f \in CmakeFlags,
        sep \in {<<EQ>>, <<SP>>},
        v \in {<<"/usr">>, <<QUOTE, "/usr", QUOTE>>, <<QUOTE, "/my", SP, "path", QUOTE>>}}

CmakeLines ==
    {<<"%cmake3", SP>> \o a : a \in CmakeArgs}
    \cup {<<"%cmake3", SP>> \o a \o <<SP, "-DBUILD_TESTING", EQ, "ON">> :
             a \in {b \in CmakeArgs : b[1] = "-DCMAKE_INSTALL_PREFIX"}}
    \cup {<<"x">>}

MaxPy3Lines == 3

\* lines that invoke %py3_install: bare, with a separator, with another long
\* option, with a --prefix argument
Py3Lines ==
    {<<"%py3_install">>,
     <<"%py3_install", SP, "--">>,
     <<"%py3_install", SP, "--root", SP, "/x">>,
     <<"%py3_install", SP, "--", SP, "--root", SP, "/x">>,
     <<"%py3_install", SP, "--", SP, "--prefix", SP, "/usr">>,
     <<"%py3_install", SP, "--", SP, "--prefix", EQ, QUOTE, "/usr", QUOTE>>,
     <<"%py3_install", SP, "--prefix", SP, "/usr">>,
     <<"x">>}

InitAlone(Docs) ==
    /\ doc \in Docs
    /\ input = doc
    /\ prev = doc
    /\ applied = <<>>
    /\ pc = "alone"
    /\ tmpl = NoFile
    /\ spec = NoFile
    /\ runs = 0
    /\ first = NoFile
    /\ NoBatch
    /\ NoWalk
    /\ NoExt

\* a transform is applied again, or fix_name and fix_source0 follow each other
CanFollow(t) ==
    IF applied = <<>> THEN TRUE
    ELSE LET last == applied[Len(applied)]
         IN  last = t \/ {last, t} = {"fix_name", "fix_source0"}

Apply(t, text) ==
    /\ pc = "alone"
    /\ Len(applied) < MaxApply
    /\ CanFollow(t)
    /\ prev' = doc
    /\ doc' = text
    /\ applied' = Append(applied, t)
    /\ UNCHANGED <<tmpl, spec, input, pc, runs, first, batchVars, walkVars, extVars>>

ApplyEnsureBconds == Apply("ensure_bconds", ensure_bconds(doc))

ApplyEnsureDebugDisabled == Apply("ensure_debug_disabled", ensure_debug_disabled(doc))

ApplyFixName == Apply("fix_name", fix_name(doc, rpm_name))

ApplyFixSource0 == Apply("fix_source0", fix_source0(doc))

ApplyFixCmakePrefixes == Apply("fix_cmake_prefixes", fix_cmake_prefixes(doc, ros_prefix))

ApplyFixPy3Install == Apply("fix_py3_install", fix_py3_install(doc, ros_prefix))

ApplyInjectRosPythonpath ==
    Apply("inject_ros_pythonpath", inject_ros_pythonpath(doc, ros_prefix))

ApplyFixFilesSection == Apply("fix_files_section", fix_files_section(doc, ros_prefix))

InitTransform == InitAlone(DocsOf(TransformLines, MaxLines))

NextTransform ==
    \/ ApplyEnsureBconds
    \/ ApplyEnsureDebugDisabled
    \/ ApplyFixName
    \/ ApplyFixSource0
    \/ ApplyFixCmakePrefixes
    \/ ApplyFixPy3Install
    \/ ApplyInjectRosPythonpath
    \/ ApplyFixFilesSection

SpecTransform == InitTransform /\ [][NextTransform]_vars

InitOrder == InitAlone(DocsOf(OrderLines, MaxLines))

NextOrder ==
    \/ ApplyFixName
    \/ ApplyFixSource0

SpecOrder == InitOrder /\ [][NextOrder]_vars

InitFiles == InitAlone(DocsOf(FilesLines, MaxFilesLines))

NextFiles == ApplyFixFilesSection

SpecFiles == InitFiles /\ [][NextFiles]_vars

InitCmake == InitAlone(DocsOf(CmakeLines, MaxCmakeLines))

NextCmake == ApplyFixCmakePrefixes

SpecCmake == InitCmake /\ [][NextCmake]_vars

InitPy3 == InitAlone(DocsOf(Py3Lines, MaxPy3Lines))

NextPy3 == ApplyFixPy3Install

SpecPy3 == InitPy3 /\ [][NextPy3]_vars


-----------------------------------------------------------------------------
(* The batch drivers: the package list and the loop of main() *)

MaxListLines == 2

\* lines of pkg_list.txt: well-formed entries, a line with one field, a
\* comment line, a blank line
ListLines ==
    {<<"a", "p">>, <<"a", "q">>, <<"b", "p">>, <<"b">>, <<"#", "b", "q">>, <<>>}

\* the fields that begin with "#"
HashFields == {"#", "#b"}

\* the entries (pkg_name, pkg_path) of the well-formed lines, in order
load_pkg_list(ls) ==
    LET ok == SelectSeq(ls, LAMBDA l : l # <<>> /\ l[1] \notin HashFields /\ Len(l) >= 2)
    IN  [i \in 1..Len(ok) |-> <<ok[i][1], ok[i][2]>>]

pkg_name(i) == pkgs[i][1]
pkg_path(i) == pkgs[i][2]

\* a task that has not started
NewTask ==
    [pc |-> "queued",          \* position of the task
     status |-> "none",        \* the status it returned
     copy_status |-> "none",   \* the copy status it returned
     gen |-> "none",           \* how the generator call ended
     git_root |-> FALSE,       \* find_git_root found a repository
     tried |-> <<>>,           \* the archive strategies invoked, with their results
     before |-> "none",        \* the destination file when the task started
     counted |-> <<>>,         \* the counters main() incremented for it
     xml |-> "none",           \* what was found at <pkg_root>/package.xml
     version |-> "none",       \* what read_version_from_package_xml returned
     same |-> FALSE,           \* input_spec and output_spec are the same file
     io |-> <<>>]              \* the file and network operations of the entry, with their results

Drivers == {"gen_template_specs", "gen_tarballs", "fix_specs"}

\* the files that may exist in repos/<pkg_name>/ before the driver runs
InitialRepos(d) ==
    IF d = "gen_tarballs"
    THEN {[archive |-> a, template |-> "none"] : a \in {"none", "old"}}
    ELSE IF d = "gen_template_specs"
    THEN {[archive |-> "none", template |-> t] : t \in {"none", "old"}}
    ELSE {[archive |-> "none", template |-> t] : t \in {"none", "old"}}

InitDriver(D) ==
    /\ driver \in D
    /\ pkg_list \in SeqsUpTo(ListLines, MaxListLines)
    /\ pkgs = load_pkg_list(pkg_list)
    /\ force \in BOOLEAN
    /\ tasks = [i \in 1..Len(pkgs) |-> NewTask]
    /\ count = IF driver = "gen_template_specs"
               THEN [ZeroCount EXCEPT !["total"] = Len(pkgs)]
               ELSE ZeroCount
    /\ repos \in [Names -> InitialRepos(driver)]
    /\ pc = "run"
    /\ NoText
    /\ NoWalk
    /\ NoNaming
    /\ NoList
    /\ \E dry \in (IF driver = "fix_specs" THEN BOOLEAN ELSE {FALSE}) :
           PipeIdle([DefaultArgs EXCEPT !.dry_run = dry])
    /\ NoUpload

\* the entry the for loop of a sequential main() is at
IsCur(i) ==
    /\ i \in 1..Len(pkgs)
    /\ tasks[i].pc # "counted"
    /\ \A j \in 1..(i - 1) : tasks[j].pc = "counted"

\* the task returns status st
Returned(t, st) == [t EXCEPT !.pc = "returned", !.status = st]

\* an exception leaves the task
Raised(t) == [t EXCEPT !.pc = "raised"]

\* main() increments counter c for entry i
Incremented(c) == [count EXCEPT ![c] = @ + 1]

\* all entries are done: main() prints the summary
MainSummary ==
    /\ pc = "run"
    /\ \A i \in 1..Len(pkgs) : tasks[i].pc = "counted"
    /\ pc' = "summary"
    /\ UNCHANGED <<textVars, batchVars, walkVars, extVars>>

-----------------------------------------------------------------------------
(* gen_tarballs.py: main() and process_package, one entry after the other *)

\* the counter main() increments for a status of process_package
tarball_counter(status) ==
    IF status = "git-ok" THEN "git_ok"
    ELSE IF status = "fallback-ok" THEN "fb_ok"
    ELSE IF status = "skipped-exist" THEN "skipped_exist"
    ELSE IF status = "no-version" THEN "no_version"
    ELSE IF status = "no-git" THEN "no_git"
    ELSE IF status = "failed" THEN "failed"
    ELSE "none"

TarballTask(i, at) ==
    /\ driver = "gen_tarballs"
    /\ pc = "run"
    /\ IsCur(i)
    /\ tasks[i].pc = at

\* total += 1, then process_package tests that the package path is a directory
TarballStart(i) ==
    /\ TarballTask(i, "queued")
    /\ count' = Incremented("total")
    /\ \E isdir \in BOOLEAN :
           tasks' = [tasks EXCEPT ![i] =
                        IF isdir
                        THEN [@ EXCEPT !.pc = "read_version",
                                       !.before = repos[pkg_name(i)].archive]
                        ELSE Returned(@, "failed")]
    /\ UNCHANGED <<pc, textVars, driver, pkg_list, pkgs, force, repos, walkVars, extVars>>

\* the states of <pkg_root>/package.xml
Manifests == {"version", "no file", "ParseError", "no tag"}

\* the version of the manifests that hold one
version_text == "1.0.0"

\* read_version_from_package_xml: a missing file, a parse error and a missing
\* tag all give None
read_version_from_package_xml(xml) ==
    IF xml = "version" THEN version_text ELSE "None"

\* version = read_version_from_package_xml(pkg_root); if not version: return "no-version"
TarballReadVersion(i) ==
    /\ TarballTask(i, "read_version")
    /\ \E xml \in Manifests :
           LET version == read_version_from_package_xml(xml)
           IN  tasks' = [tasks EXCEPT ![i] =
                            IF version = "None"
                            THEN Returned([@ EXCEPT !.xml = xml, !.version = version],
                                          "no-version")
                            ELSE [@ EXCEPT !.xml = xml, !.version = version,
                                           !.pc = "makedirs"]]
    /\ UNCHANGED <<pc, textVars, driver, pkg_list, pkgs, force, count, repos, walkVars, extVars>>

\* os.makedirs(pkg_repo_dir, exist_ok=True): an OSError is caught nowhere
TarballMakedirs(i) ==
    /\ TarballTask(i, "makedirs")
    /\ \E made \in {"ok", "OSError"} :
           IF made = "ok"
           THEN /\ tasks' = [tasks EXCEPT ![i].pc = "exists"]
                /\ pc' = pc
           ELSE /\ tasks' = [tasks EXCEPT ![i] = Raised(@)]
                /\ pc' = "crashed"
    /\ UNCHANGED <<textVars, driver, pkg_list, pkgs, force, count, repos, walkVars, extVars>>

\* process_package without the test for an existing destination
TarballCheckExists_always_build(i) ==
    /\ TarballTask(i, "exists")
    /\ tasks' = [tasks EXCEPT ![i].pc = "find_git_root"]
    /\ UNCHANGED <<pc, textVars, driver, pkg_list, pkgs, force, count, repos, walkVars, extVars>>

\* if os.path.exists(dest_tar_gz) and not force: return "skipped-exist"
TarballCheckExists(i) ==
    /\ TarballTask(i, "exists")
    /\ tasks' = [tasks EXCEPT ![i] =
                    IF repos[pkg_name(i)].archive # "none" /\ ~force
                    THEN Returned(@, "skipped-exist")
                    ELSE [@ EXCEPT !.pc = "find_git_root"]]
    /\ UNCHANGED <<pc, textVars, driver, pkg_list, pkgs, force, count, repos, walkVars, extVars>>

\* process_package that goes to the fallback whether or not a git root is found
TarballFindGitRoot_fallback_first(i) ==
    /\ TarballTask(i, "find_git_root")
    /\ \E found \in BOOLEAN :
           tasks' = [tasks EXCEPT ![i] = [@ EXCEPT !.git_root = found, !.pc = "fallback"]]
    /\ UNCHANGED <<pc, textVars, driver, pkg_list, pkgs, force, count, repos, walkVars, extVars>>

TarballFindGitRoot(i) ==
    /\ TarballTask(i, "find_git_root")
    /\ \E found \in BOOLEAN :
           tasks' = [tasks EXCEPT ![i] =
                        [@ EXCEPT !.git_root = found,
                                  !.pc = IF found THEN "git_archive" ELSE "fallback"]]
    /\ UNCHANGED <<pc, textVars, driver, pkg_list, pkgs, force, count, repos, walkVars, extVars>>

\* run_git_archive: git missing or a non-zero exit leave the file alone; a
\* failed write leaves whatever gzip.open created
TarballGitArchive(i) ==
    /\ TarballTask(i, "git_archive")
    /\ \E r \in {"ok", "FileNotFoundError", "nonzero", "OSError"} :
           /\ tasks' = [tasks EXCEPT ![i] =
                           IF r = "ok"
                           THEN Returned([@ EXCEPT !.tried = Append(@, <<"git", TRUE>>)],
                                         "git-ok")
                           ELSE [@ EXCEPT !.tried = Append(@, <<"git", FALSE>>),
                                          !.pc = "fallback"]]
           /\ repos' = [repos EXCEPT ![pkg_name(i)].archive =
                           IF r = "ok" THEN "git"
                           ELSE IF r = "OSError" THEN "partial"
                           ELSE @]
    /\ UNCHANGED <<pc, textVars, driver, pkg_list, pkgs, force, count, walkVars, extVars>>

\* run_fallback_tar_archive: an OSError of tarfile leaves a partial file
TarballFallback(i) ==
    /\ TarballTask(i, "fallback")
    /\ \E r \in {"ok", "not a dir", "OSError"} :
           /\ tasks' = [tasks EXCEPT ![i] =
                           Returned([@ EXCEPT !.tried = Append(@, <<"fallback", r = "ok">>)],
                                    IF r = "ok" THEN "fallback-ok" ELSE "failed")]
           /\ repos' = [repos EXCEPT ![pkg_name(i)].archive =
                           IF r = "ok" THEN "fallback"
                           ELSE IF r = "OSError" THEN "partial"
                           ELSE @]
    /\ UNCHANGED <<pc, textVars, driver, pkg_list, pkgs, force, count, walkVars, extVars>>

\* the if/elif chain of main() on the returned status
TarballCount(i) ==
    /\ TarballTask(i, "returned")
    /\ LET c == tarball_counter(tasks[i].status)
       IN  /\ count' = IF c = "none" THEN count ELSE Incremented(c)
           /\ tasks' = [tasks EXCEPT ![i] =
                           [@ EXCEPT !.pc = "counted",
                                     !.counted = IF c = "none" THEN @ ELSE Append(@, c)]]
    /\ UNCHANGED <<pc, textVars, driver, pkg_list, pkgs, force, repos, walkVars, extVars>>

NextTarballs ==
    \/ \E i \in 1..Len(pkgs) : TarballStart(i)
    \/ \E i \in 1..Len(pkgs) : TarballReadVersion(i)
    \/ \E i \in 1..Len(pkgs) : TarballMakedirs(i)
    \/ \E i \in 1..Len(pkgs) : TarballCheckExists(i)
    \/ \E i \in 1..Len(pkgs) : TarballFindGitRoot(i)
    \/ \E i \in 1..Len(pkgs) : TarballGitArchive(i)
    \/ \E i \in 1..Len(pkgs) : TarballFallback(i)
    \/ \E i \in 1..Len(pkgs) : TarballCount(i)
    \/ MainSummary

InitTarballs == InitDriver({"gen_tarballs"})

SpecTarballs == InitTarballs /\ [][NextTarballs]_vars

-----------------------------------------------------------------------------
(* fix_specs.py: the loop of main() over the package list (the text of the  *)
(* documents is the subject of Spec above)                                  *)

FixSpecsTask(i, at) ==
    /\ driver = "fix_specs"
    /\ pc = "run"
    /\ IsCur(i)
    /\ tasks[i].pc = at

\* main() counts the entry in counter c and goes on with the next entry
Counted(t, c) == [t EXCEPT !.pc = "counted", !.status = c, !.counted = Append(@, c)]

\* total += 1; a missing repos/<pkg_name> directory is skipped
FixSpecsStart(i) ==
    /\ FixSpecsTask(i, "queued")
    /\ \E isdir \in (IF repos[pkg_name(i)].template = "old" THEN {TRUE} ELSE BOOLEAN) :
           IF isdir
           THEN /\ tasks' = [tasks EXCEPT ![i].pc = "find_input_spec"]
                /\ count' = Incremented("total")
           ELSE /\ tasks' = [tasks EXCEPT ![i] = Counted(@, "skipped")]
                /\ count' = [count EXCEPT !["total"] = @ + 1, !["skipped"] = @ + 1]
    /\ UNCHANGED <<pc, textVars, driver, pkg_list, pkgs, force, repos, walkVars, extVars>>

\* what find_input_spec can return in repos/<pkg_name>/: template.spec when it
\* exists, else the only .spec file, else None
Found(i) ==
    IF repos[pkg_name(i)].template = "old"
    THEN {"template.spec"}
    ELSE {"one .spec", "no .spec", "several .spec"}

\* find_input_spec; output_spec is <pkg_hyphen>.spec of the same directory: it
\* is the input file when the only .spec is the output of an earlier run, or
\* when the output is itself called template.spec
FixSpecsFindInput(i) ==
    /\ FixSpecsTask(i, "find_input_spec")
    /\ \E found \in Found(i), same \in BOOLEAN :
           IF found \in {"template.spec", "one .spec"}
           THEN /\ tasks' = [tasks EXCEPT ![i] = [@ EXCEPT !.pc = "read", !.before = found,
                                                           !.same = same]]
                /\ count' = count
           ELSE /\ ~same
                /\ tasks' = [tasks EXCEPT ![i] = Counted(@, "skipped")]
                /\ count' = Incremented("skipped")
    /\ UNCHANGED <<pc, textVars, driver, pkg_list, pkgs, force, repos, walkVars, extVars>>

\* open(input_spec, encoding="utf-8").read(): only OSError is caught
FixSpecsRead(i) ==
    /\ FixSpecsTask(i, "read")
    /\ \E r \in {"ok", "OSError", "UnicodeDecodeError"} :
           IF r = "ok"
           THEN /\ tasks' = [tasks EXCEPT ![i].pc = "write"]
                /\ count' = count
                /\ pc' = pc
           ELSE IF r = "OSError"
           THEN /\ tasks' = [tasks EXCEPT ![i] = Counted(@, "skipped")]
                /\ count' = Incremented("skipped")
                /\ pc' = pc
           ELSE /\ tasks' = [tasks EXCEPT ![i] = Raised(@)]
                /\ count' = count
                /\ pc' = "crashed"
    /\ UNCHANGED <<textVars, driver, pkg_list, pkgs, force, repos, walkVars, extVars>>

\* an OSError of the write is counted as skipped (continue), without it the
\* loop body goes on
after_write_unconditional(w) == "remove"

after_write(w) == IF w = "ok" THEN "remove" ELSE "skipped"

\* patch_spec_text; with --dry-run the entry is counted as patched at once,
\* else output_spec is written
FixSpecsWrite(i) ==
    /\ FixSpecsTask(i, "write")
    /\ IF args.dry_run
       THEN /\ tasks' = [tasks EXCEPT ![i] = Counted(@, "patched")]
            /\ count' = Incremented("patched")
       ELSE \E w \in {"ok", "OSError"} :
               IF after_write(w) = "remove"
               THEN /\ tasks' = [tasks EXCEPT ![i] = [@ EXCEPT !.pc = "remove",
                                                               !.io = Append(@, <<"write", w>>)]]
                    /\ count' = count
               ELSE /\ tasks' = [tasks EXCEPT ![i] =
                                     Counted([@ EXCEPT !.io = Append(@, <<"write", w>>)], "skipped")]
                    /\ count' = Incremented("skipped")
    /\ UNCHANGED <<pc, textVars, driver, pkg_list, pkgs, force, repos, walkVars, extVars>>

\* the input is removed when it is called template.spec and is not the output;
\* an OSError of os.remove is only reported; patched += 1
FixSpecsRemove(i) ==
    /\ FixSpecsTask(i, "remove")
    /\ IF tasks[i].before = "template.spec" /\ ~tasks[i].same
       THEN \E r \in {"ok", "OSError"} :
               /\ tasks' = [tasks EXCEPT ![i] =
                                Counted([@ EXCEPT !.io = Append(@, <<"remove", r>>)], "patched")]
               /\ repos' = IF r = "ok"
                           THEN [repos EXCEPT ![pkg_name(i)].template = "none"]
                           ELSE repos
       ELSE /\ tasks' = [tasks EXCEPT ![i] = Counted(@, "patched")]
            /\ repos' = repos
    /\ count' = Incremented("patched")
    /\ UNCHANGED <<pc, textVars, driver, pkg_list, pkgs, force, walkVars, extVars>>

NextFixSpecs ==
    \/ \E i \in 1..Len(pkgs) : FixSpecsStart(i)
    \/ \E i \in 1..Len(pkgs) : FixSpecsFindInput(i)
    \/ \E i \in 1..Len(pkgs) : FixSpecsRead(i)
    \/ \E i \in 1..Len(pkgs) : FixSpecsWrite(i)
    \/ \E i \in 1..Len(pkgs) : FixSpecsRemove(i)
    \/ MainSummary

InitFixSpecs == InitDriver({"fix_specs"})

SpecFixSpecs == InitFixSpecs /\ [][NextFixSpecs]_vars

-----------------------------------------------------------------------------
(* gen_template_specs.py: main() submits one task per entry to a pool of    *)
(* worker threads and collects the results as the tasks complete            *)

\* args.workers
workers == 2

\* run_bloom_generate_rpm without the TimeoutExpired handler of its own: a
\* timeout is reported like any other failure
run_bloom_generate_rpm_timeout_as_error(ended) ==
    IF ended = "exit 0" THEN "ok" ELSE "error"

\* the status run_bloom_generate_rpm returns for the way the call ended
run_bloom_generate_rpm(ended) ==
    IF ended = "exit 0" THEN "ok"
    ELSE IF ended = "TimeoutExpired" THEN "timeout"
    ELSE "error"

\* positions at which a task occupies a worker thread
Running == {"bloom", "copy", "copy_dst", "copyfile"}

TemplateTask(i, at) ==
    /\ driver = "gen_template_specs"
    /\ pc = "run"
    /\ i \in 1..Len(pkgs)
    /\ tasks[i].pc = at

\* process_one_package maps the two failures to a result without copying
AfterBloom(t, ended) ==
    LET bloom_status == run_bloom_generate_rpm(ended)
    IN  IF bloom_status = "ok"
        THEN [t EXCEPT !.gen = ended, !.pc = "copy"]
        ELSE Returned([t EXCEPT !.gen = ended], bloom_status)

\* a free worker takes the task: the package root is tested and the
\* generator is started in it
TemplateStart(i) ==
    /\ TemplateTask(i, "queued")
    /\ Cardinality({j \in 1..Len(pkgs) : tasks[j].pc \in Running}) < workers
    /\ \E started \in {"running", "not a dir", "FileNotFoundError"} :
           tasks' = [tasks EXCEPT ![i] =
                        IF started = "running"
                        THEN [@ EXCEPT !.gen = "running", !.pc = "bloom"]
                        ELSE AfterBloom(@, started)]
    /\ UNCHANGED <<pc, textVars, driver, pkg_list, pkgs, force, count, repos, walkVars, extVars>>

\* subprocess.run returns, or kills the generator after timeout_seconds
TemplateBloomEnds(i) ==
    /\ TemplateTask(i, "bloom")
    /\ \E ended \in {"exit 0", "nonzero", "TimeoutExpired"} :
           tasks' = [tasks EXCEPT ![i] = AfterBloom(@, ended)]
    /\ UNCHANGED <<pc, textVars, driver, pkg_list, pkgs, force, count, repos, walkVars, extVars>>

\* copy_template_spec_to_repos: the source is tested, the directory made
TemplateCopySource(i) ==
    /\ TemplateTask(i, "copy")
    /\ \E src \in {"exists", "missing", "OSError"} :
           tasks' = [tasks EXCEPT ![i] =
                        IF src = "exists" THEN [@ EXCEPT !.pc = "copy_dst"]
                        ELSE IF src = "missing"
                        THEN Returned([@ EXCEPT !.copy_status = "missing-source"], "ok")
                        ELSE Raised(@)]
    /\ UNCHANGED <<pc, textVars, driver, pkg_list, pkgs, force, count, repos, walkVars, extVars>>

\* if os.path.exists(template_spec_dst) and not force
TemplateCopyCheckDst(i) ==
    /\ TemplateTask(i, "copy_dst")
    /\ tasks' = [tasks EXCEPT ![i] =
                    IF repos[pkg_name(i)].template # "none" /\ ~force
                    THEN Returned([@ EXCEPT !.copy_status = "skipped-existing"], "ok")
                    ELSE [@ EXCEPT !.pc = "copyfile"]]
    /\ UNCHANGED <<pc, textVars, driver, pkg_list, pkgs, force, count, repos, walkVars, extVars>>

\* shutil.copyfile(template_spec_src, template_spec_dst)
TemplateCopyFile(i) ==
    /\ TemplateTask(i, "copyfile")
    /\ \E r \in {"ok", "OSError"} :
           IF r = "ok"
           THEN /\ tasks' = [tasks EXCEPT ![i] =
                                Returned([@ EXCEPT !.copy_status = "copied"], "ok")]
                /\ repos' = [repos EXCEPT ![pkg_name(i)].template = pkg_path(i)]
           ELSE /\ tasks' = [tasks EXCEPT ![i] = Raised(@)]
                /\ repos' = repos
    /\ UNCHANGED <<pc, textVars, driver, pkg_list, pkgs, force, count, walkVars, extVars>>

\* template_counters that counts nothing for a future that raised
template_counters_skipping_exceptions(t) ==
    IF t.pc = "raised" THEN <<>>
    ELSE (IF t.status = "ok" THEN <<"bloom_ok">>
          ELSE IF t.status = "error" THEN <<"bloom_error">>
          ELSE IF t.status = "timeout" THEN <<"bloom_timeout">>
          ELSE <<>>)
         \o (IF t.copy_status = "copied" THEN <<"copied">>
             ELSE IF t.copy_status = "skipped-existing" THEN <<"skipped_existing">>
             ELSE IF t.copy_status = "missing-source" THEN <<"missing_source">>
             ELSE <<>>)

\* the counters main() increments for a completed future
template_counters(t) ==
    IF t.pc = "raised" THEN <<"bloom_error">>
    ELSE (IF t.status = "ok" THEN <<"bloom_ok">>
          ELSE IF t.status = "error" THEN <<"bloom_error">>
          ELSE IF t.status = "timeout" THEN <<"bloom_timeout">>
          ELSE <<>>)
         \o (IF t.copy_status = "copied" THEN <<"copied">>
             ELSE IF t.copy_status = "skipped-existing" THEN <<"skipped_existing">>
             ELSE IF t.copy_status = "missing-source" THEN <<"missing_source">>
             ELSE <<>>)

\* one turn of the as_completed loop, for whichever future is done
TemplateCollect(i) ==
    /\ driver = "gen_template_specs"
    /\ pc = "run"
    /\ i \in 1..Len(pkgs)
    /\ tasks[i].pc \in {"returned", "raised"}
    /\ LET cs == template_counters(tasks[i])
       IN  /\ count' = [c \in Counters |->
                           count[c] + Cardinality({k \in 1..Len(cs) : cs[k] = c})]
           /\ tasks' = [tasks EXCEPT ![i] = [@ EXCEPT !.pc = "counted", !.counted = cs]]
    /\ UNCHANGED <<pc, textVars, driver, pkg_list, pkgs, force, repos, walkVars, extVars>>

NextTemplates ==
    \/ \E i \in 1..Len(pkgs) : TemplateStart(i)
    \/ \E i \in 1..Len(pkgs) : TemplateBloomEnds(i)
    \/ \E i \in 1..Len(pkgs) : TemplateCopySource(i)
    \/ \E i \in 1..Len(pkgs) : TemplateCopyCheckDst(i)
    \/ \E i \in 1..Len(pkgs) : TemplateCopyFile(i)
    \/ \E i \in 1..Len(pkgs) : TemplateCollect(i)
    \/ MainSummary

InitTemplates == InitDriver({"gen_template_specs"})

SpecTemplates == InitTemplates /\ [][NextTemplates]_vars

\* any of the three drivers
InitBatch == InitDriver(Drivers)

NextBatch ==
    \/ NextTemplates
    \/ NextTarballs
    \/ NextFixSpecs

SpecBatch == InitBatch /\ [][NextBatch]_vars

-----------------------------------------------------------------------------
(* gen_tarballs.py: run_fallback_tar_archive walks the package directory    *)
(* with tarfile.add and the filter tar_filter_exclude_git                   *)

MaxEntries == 4

\* names of directory entries, in the order of sorted()
Comps == <<".git", ".gitignore", "src">>

\* the components that contain the characters ".git"
GitSubstringComps == {".git", ".gitignore"}

\* relative paths of entries, as their components: the top level and one
\* level below it
EntryPaths ==
    {<<c>> : c \in Range(Comps)} \cup {<<c, d>> : c \in Range(Comps), d \in Range(Comps)}

\* directory trees: every entry lies in a directory of the tree
Trees ==
    {t \in SUBSET EntryPaths :
        /\ Cardinality(t) <= MaxEntries
        /\ \A e \in t : Len(e) = 2 => <<e[1]>> \in t}

\* the top directory of the archive: ros-<distro>-<name-hyphen>-<version>
prefix_dir == "ros-jazzy-foo-bar-1.0.0"

\* sorted(os.listdir(name)) for the directory at relative path e
Listdir(t, e) ==
    LET present == SelectSeq(Comps, LAMBDA c : Append(e, c) \in t)
    IN  [k \in 1..Len(present) |-> Append(e, present[k])]

\* a filter that excludes every name that contains the characters ".git"
tar_filter_exclude_git_substring(name) ==
    IF Range(name) \cap GitSubstringComps # {} THEN <<>> ELSE name

\* name.split("/") holds a part ".git": None (<<>>), else the member itself
tar_filter_exclude_git(name) ==
    IF ".git" \in Range(name) THEN <<>> ELSE name

InitWalk ==
    /\ tree \in Trees
    /\ pending = <<>>
    /\ members = <<>>
    /\ pc = "tarfile.open"
    /\ NoText
    /\ NoBatch
    /\ NoExt

\* tarfile.open(dest_tar_gz, "w:gz"), then tf.add(src_path, arcname=prefix_dir)
WalkOpen ==
    /\ pc = "tarfile.open"
    /\ \E r \in {"ok", "OSError"} :
           IF r = "ok"
           THEN /\ pending' = << <<>> >>
                /\ pc' = "tarfile.add"
           ELSE /\ pending' = pending
                /\ pc' = "return False"
    /\ UNCHANGED <<textVars, batchVars, tree, members, extVars>>

\* one call of TarFile.add: the filter, addfile, and the recursion into a
\* directory in sorted order
WalkAdd ==
    /\ pc = "tarfile.add"
    /\ pending # <<>>
    /\ LET e == Head(pending)
           tarinfo == tar_filter_exclude_git(<<prefix_dir>> \o e)
       IN  IF tarinfo = <<>>
           THEN /\ members' = members
                /\ pending' = Tail(pending)
           ELSE /\ members' = Append(members, tarinfo)
                /\ pending' = Listdir(tree, e) \o Tail(pending)
    /\ UNCHANGED <<pc, textVars, batchVars, tree, extVars>>

\* the with block ends: the archive is closed and True returned
WalkClose ==
    /\ pc = "tarfile.add"
    /\ pending = <<>>
    /\ pc' = "return True"
    /\ UNCHANGED <<textVars, batchVars, walkVars, extVars>>

NextWalk ==
    \/ WalkOpen
    \/ WalkAdd
    \/ WalkClose

SpecWalk == InitWalk /\ [][NextWalk]_vars

-----------------------------------------------------------------------------
(* The names gen_tarballs.py and fix_specs.py derive from a package name, a  *)
(* distro and a version. A string is the sequence of its pieces.             *)

MaxNameLen == 3

\* the pieces of a package name
NamePieces == {"foo", "bar", "_", "-"}
PkgNames == SeqsUpTo(NamePieces, MaxNameLen) \ {<<>>}
Distros == {"jazzy", "humble"}
Versions == {"1.2.3", "0.0.1"}

\* the string a sequence of pieces stands for
RECURSIVE Str(_)
Str(s) == IF s = <<>> THEN "" ELSE Head(s) \o Str(Tail(s))

\* str.replace("_", "-")
replace_underscores(s) == [i \in DOMAIN s |-> IF s[i] = "_" THEN "-" ELSE s[i]]

\* gen_tarballs.process_package: name_hyphen = pkg_name.replace("_", "-")
name_hyphen(name) == replace_underscores(name)

\* gen_tarballs.process_package: ros_pkg_name = f"ros-{ros_distro}-{name_hyphen}"
ros_pkg_name(distro, name) == <<"ros-", distro, "-">> \o name_hyphen(name)

\* gen_tarballs.process_package: tarball_name = f"{ros_pkg_name}_{version}.orig.tar.gz"
tarball_name(distro, name, version) ==
    ros_pkg_name(distro, name) \o <<"_", version, ".orig.tar.gz">>

\* gen_tarballs.process_package: prefix_dir = f"{ros_pkg_name}-{version}"
prefix_dir_of(distro, name, version) ==
    ros_pkg_name(distro, name) \o <<"-", version>>

\* pkg_name.replace("_", "-", 1): only the first "_" is replaced
pkg_hyphen_first_only(name) ==
    [i \in DOMAIN name |->
        IF name[i] = "_" /\ \A j \in 1..(i - 1) : name[j] # "_" THEN "-" ELSE name[i]]

\* fix_specs.main: pkg_hyphen = pkg_name.replace("_", "-")
pkg_hyphen(name) == replace_underscores(name)

\* fix_specs.main: rpm_name = f"ros-{args.ros_distro}-{pkg_hyphen}"
rpm_name_of(distro, name) == <<"ros-", distro, "-">> \o pkg_hyphen(name)

\* fix_source0: the value written after "Source0: ", piece by piece
source0_value == <<"%{name}", "_", "%{version}", ".orig.tar.gz">>

\* the Source0 value with the macros replaced by the Name and Version fields
RECURSIVE Expand(_, _, _)
Expand(s, name_field, version_field) ==
    IF s = <<>> THEN <<>>
    ELSE (IF Head(s) = "%{name}" THEN name_field
          ELSE IF Head(s) = "%{version}" THEN <<version_field>>
          ELSE <<Head(s)>>) \o Expand(Tail(s), name_field, version_field)

\* the top-level directory of the members of an archive made with the
\* prefix argument p (git archive --prefix=<prefix_dir>/)
RootOfPrefix(p) == SubSeq(p, 1, Len(p) - 1)

\* the names not derived yet are empty
InitNaming ==
    /\ naming \in [pkg_name : PkgNames, ros_distro : Distros, version : Versions,
                   ros_pkg_name : {<<>>}, tarball_name : {<<>>}, prefix_dir : {<<>>},
                   git_root : {<<>>}, fallback_root : {<<>>},
                   rpm_name : {<<>>}, Name : {<<>>}, Source0 : {<<>>}]
    /\ pc = "naming"
    /\ IdleButNaming

\* process_package computes the names of the archive
NamingProcessPackage ==
    /\ pc = "naming"
    /\ naming.ros_pkg_name = <<>>
    /\ LET d == naming.ros_distro
           n == naming.pkg_name
           v == naming.version
       IN  naming' = [naming EXCEPT !.ros_pkg_name = ros_pkg_name(d, n),
                                    !.tarball_name = tarball_name(d, n, v),
                                    !.prefix_dir = prefix_dir_of(d, n, v)]
    /\ UNCHANGED <<pc, restOfNaming>>

\* run_git_archive passes f"--prefix={prefix_dir}/" to git archive
NamingGitArchive ==
    /\ pc = "naming"
    /\ naming.prefix_dir # <<>>
    /\ naming.git_root = <<>>
    /\ LET prefix == naming.prefix_dir \o <<"/">>
       IN  naming' = [naming EXCEPT !.git_root = RootOfPrefix(prefix)]
    /\ UNCHANGED <<pc, restOfNaming>>

\* run_fallback_tar_archive passes arcname=prefix_dir to tf.add
NamingFallback ==
    /\ pc = "naming"
    /\ naming.prefix_dir # <<>>
    /\ naming.fallback_root = <<>>
    /\ naming' = [naming EXCEPT !.fallback_root = naming.prefix_dir]
    /\ UNCHANGED <<pc, restOfNaming>>

\* fix_specs.main computes rpm_name; fix_name writes it to the Name line and
\* fix_source0 writes the Source0 line
NamingFixSpecs ==
    /\ pc = "naming"
    /\ naming.rpm_name = <<>>
    /\ naming' = [naming EXCEPT !.rpm_name = rpm_name_of(naming.ros_distro, naming.pkg_name),
                                !.Name = rpm_name_of(naming.ros_distro, naming.pkg_name),
                                !.Source0 = source0_value]
    /\ UNCHANGED <<pc, restOfNaming>>

NextNaming ==
    \/ NamingProcessPackage
    \/ NamingGitArchive
    \/ NamingFallback
    \/ NamingFixSpecs

SpecNaming == InitNaming /\ [][NextNaming]_vars

-----------------------------------------------------------------------------
(* load_pkg_list: the package list is read line by line (the same loop is    *)
(* written out in gen_tarballs.main)                                         *)

\* lines of pkg_list.txt, each as the fields of line.strip().split(): those
\* of the batch drivers, a comment without a space after "#", a lone "#" and
\* an entry with a third field
ListFileLines == ListLines \cup {<<"#b", "q">>, <<"#">>, <<"a", "p", "x">>}

InitList ==
    /\ driver = "none"
    /\ pkg_list \in SeqsUpTo(ListFileLines, MaxListLines)
    /\ pkgs = <<>>
    /\ force = FALSE
    /\ tasks = <<>>
    /\ count = ZeroCount
    /\ repos = [n \in Names |-> EmptyRepo]
    /\ lineno = 0
    /\ warnings = <<>>
    /\ pc = "load_pkg_list"
    /\ IdleButList

\* the line the for loop is about to read
NextLine == pkg_list[lineno + 1]

ListReading ==
    /\ pc = "load_pkg_list"
    /\ lineno < Len(pkg_list)

\* a test that takes only the empty lines
IsIgnored_blank_only(line) == line = <<>>

\* not line or line.startswith("#")
IsIgnored(line) == IF line = <<>> THEN TRUE ELSE line[1] \in HashFields

\* if not line or line.startswith("#"): continue
ListSkipLine ==
    /\ ListReading
    /\ IsIgnored(NextLine)
    /\ lineno' = lineno + 1
    /\ UNCHANGED <<pc, pkgs, warnings>>
    /\ UNCHANGED <<driver, pkg_list, force, tasks, count, repos, restOfList>>

\* if len(parts) < 2: print a warning; continue
ListWarnLine ==
    /\ ListReading
    /\ ~IsIgnored(NextLine)
    /\ Len(NextLine) < 2
    /\ lineno' = lineno + 1
    /\ warnings' = Append(warnings, lineno + 1)
    /\ UNCHANGED <<pc, pkgs>>
    /\ UNCHANGED <<driver, pkg_list, force, tasks, count, repos, restOfList>>

\* result.append((parts[0], parts[1]))
ListAppendLine ==
    /\ ListReading
    /\ ~IsIgnored(NextLine)
    /\ Len(NextLine) >= 2
    /\ lineno' = lineno + 1
    /\ pkgs' = Append(pkgs, <<NextLine[1], NextLine[2]>>)
    /\ UNCHANGED <<pc, warnings>>
    /\ UNCHANGED <<driver, pkg_list, force, tasks, count, repos, restOfList>>

\* the file is exhausted: return result
ListReturn ==
    /\ pc = "load_pkg_list"
    /\ lineno = Len(pkg_list)
    /\ pc' = "return result"
    /\ UNCHANGED <<pkgs, lineno, warnings>>
    /\ UNCHANGED <<driver, pkg_list, force, tasks, count, repos, restOfList>>

NextList ==
    \/ ListSkipLine
    \/ ListWarnLine
    \/ ListAppendLine
    \/ ListReturn

SpecList == InitList /\ [][NextList]_vars

-----------------------------------------------------------------------------
(* run_pipeline.py: main() and run_step, with the confirmation prompt of     *)
(* delete_all_gitee_repos.main; the start of gen_template_specs.main,        *)
(* gen_tarballs.main and fix_specs.main when run on their own                *)

PKG_LIST == "pkg_list.txt"
REPOS == "repos"

\* what workspace/repos held before the run
OLD_REPOS == "repos/<old contents>"

DELETE_SCRIPT == "delete_all_gitee_repos.py"
UPLOAD_SCRIPT == "upload_to_gitee.py"

\* the scripts run_pipeline calls, in the order of main()
Scripts ==
    <<DELETE_SCRIPT, "gen_template_specs.py", "gen_tarballs.py", "fix_specs.py",
      UPLOAD_SCRIPT>>

\* the programs a user starts
Programs ==
    {"run_pipeline", "gen_template_specs", "gen_tarballs", "fix_specs",
     "delete_all_gitee_repos"}

\* the scripts that work through the package list
ListScripts == {"gen_template_specs", "gen_tarballs", "fix_specs"}

\* the texts a user types at a prompt; the empty text is the end of file
Answers ==
    {<<"y", NL>>, <<"Y", NL>>, <<"yes", NL>>, <<SP, "YES", SP, NL>>, <<"n", NL>>,
     <<NL>>, <<"yes", "sir", NL>>, <<>>}

\* str.lower(), lexeme by lexeme
lower(s) ==
    [i \in DOMAIN s |-> IF s[i] = "Y" THEN "y" ELSE IF s[i] = "YES" THEN "yes" ELSE s[i]]

\* input(): the first line of standard input without its line end
input_line(stdin) == SubSeq(stdin, 1, LineEnd(stdin, 1) - 1)

\* run_pipeline leaves with sys.exit(status), or with a traceback (status 1)
Exit(status) ==
    /\ pc' = "exited"
    /\ exit_status' = status

\* the sets of paths a run may start from: at most one script is missing
InitialFiles ==
    {F \cup S : F \in SUBSET {PKG_LIST, REPOS, OLD_REPOS},
                S \in {Range(Scripts)} \cup {Range(Scripts) \ {x} : x \in Range(Scripts)}}

InitPipeline ==
    /\ driver \in Programs
    /\ pc = "main"
    /\ args \in [skip_delete_remote : BOOLEAN, no_clean_repos : BOOLEAN, dry_run : {FALSE}]
    /\ files \in {F \in InitialFiles : OLD_REPOS \in F => REPOS \in F}
    /\ env \in BOOLEAN
    /\ remote \in {"repos", "no repos"}
    /\ child = NoChild
    /\ steps = <<>>
    /\ exit_status = 0
    /\ processed = FALSE
    /\ answer = <<>>
    /\ driver # "run_pipeline" =>
           /\ args = DefaultArgs
           /\ Range(Scripts) \subseteq files
    /\ driver \in ListScripts => ~env /\ remote = "no repos"
    /\ driver = "delete_all_gitee_repos" => files = Range(Scripts)
    /\ pkg_list = <<>>
    /\ pkgs = <<>>
    /\ force = FALSE
    /\ tasks = <<>>
    /\ count = ZeroCount
    /\ repos = [n \in Names |-> EmptyRepo]
    /\ IdleButPipe

\* main() of run_pipeline is at position at
PipeAt(at) ==
    /\ driver = "run_pipeline"
    /\ pc = at

\* run_pipeline without the test of the package list
PipeCheckPkgList_unchecked ==
    /\ PipeAt("main")
    /\ pc' = "step 1"
    /\ UNCHANGED <<driver, args, files, env, remote, child, steps, exit_status,
                   processed, answer, restOfPipe>>

\* if not os.path.exists(pkg_list_path): sys.exit(1)
PipeCheckPkgList ==
    /\ PipeAt("main")
    /\ IF PKG_LIST \in files
       THEN pc' = "step 1" /\ exit_status' = exit_status
       ELSE Exit(1)
    /\ UNCHANGED <<driver, args, files, env, remote, child, steps,
                   processed, answer, restOfPipe>>

\* subprocess.run starts the command of step name with the text stdin on its
\* standard input
Started(name, script, stdin) ==
    /\ steps' = Append(steps, [name |-> name, rc |-> -1])
    /\ child' = [script |-> script, stdin |-> stdin, at |-> "main", answer |-> <<>>,
                 rc |-> -1]
    /\ pc' = "run_step"
    /\ exit_status' = exit_status

\* run_step up to subprocess.run: FileNotFoundError ends the program with 127
run_step(name, script, stdin) ==
    \E found \in BOOLEAN :
        IF found
        THEN Started(name, script, stdin)
        ELSE /\ steps' = Append(steps, [name |-> name, rc |-> 127])
             /\ child' = child
             /\ Exit(127)

\* Step 1: the remote repositories are deleted unless the step is skipped,
\* the credentials are not set or the script is missing
PipeDeleteRemote ==
    /\ PipeAt("step 1")
    /\ IF ~args.skip_delete_remote /\ env /\ DELETE_SCRIPT \in files
       THEN run_step("delete remote", DELETE_SCRIPT, <<"yes", NL>>)
       ELSE /\ pc' = "step 2"
            /\ UNCHANGED <<child, steps, exit_status>>
    /\ UNCHANGED <<driver, args, files, env, remote, processed, answer, restOfPipe>>

\* delete_all_gitee_repos.py started by the user: require_user_and_token,
\* then main() goes on with what the user types
DeleteStart ==
    /\ driver = "delete_all_gitee_repos"
    /\ pc = "main"
    /\ IF env
       THEN /\ \E typed \in Answers :
                   child' = [script |-> DELETE_SCRIPT, stdin |-> typed, at |-> "main",
                             answer |-> <<>>, rc |-> -1]
            /\ pc' = "own main"
            /\ exit_status' = exit_status
       ELSE /\ child' = child
            /\ Exit(1)
    /\ UNCHANGED <<driver, args, files, env, remote, steps, processed, answer, restOfPipe>>

\* the script is at position at of its main(), as the subprocess of the
\* current step or started by the user
ChildAt(script, at) ==
    /\ pc \in {"run_step", "own main"}
    /\ child.script = script
    /\ child.at = at

\* delete_all_gitee_repos.py started by the user ends
DeleteReturns ==
    /\ driver = "delete_all_gitee_repos"
    /\ pc = "own main"
    /\ child.at = "exited"
    /\ Exit(child.rc)
    /\ UNCHANGED <<driver, args, files, env, remote, child, steps, processed, answer,
                   restOfPipe>>

\* the subprocess exits with status rc
ChildExits(rc) == child' = [child EXCEPT !.at = "exited", !.rc = rc]

\* delete_all_gitee_repos.main: the repositories are listed; with none, or
\* when the request fails, main() returns
DeleteListRepos ==
    /\ ChildAt(DELETE_SCRIPT, "main")
    /\ \E listed \in BOOLEAN :
           IF listed /\ remote = "repos"
           THEN child' = [child EXCEPT !.at = "confirm"]
           ELSE ChildExits(0)
    /\ UNCHANGED <<pc, driver, args, files, env, remote, steps, exit_status,
                   processed, answer, restOfPipe>>

\* answer = input(...).strip(); if answer != "YES": return
confirmed(text) == Strip(text) = <<"YES">>

\* delete_all_gitee_repos.main: the confirmation prompt
DeleteConfirm ==
    /\ ChildAt(DELETE_SCRIPT, "confirm")
    /\ IF child.stdin = <<>>
       THEN ChildExits(1)
       ELSE LET text == Strip(input_line(child.stdin))
            IN  child' = [child EXCEPT !.answer = text,
                                       !.at = IF confirmed(input_line(child.stdin))
                                              THEN "delete" ELSE "exited",
                                       !.rc = IF confirmed(input_line(child.stdin))
                                              THEN -1 ELSE 0]
    /\ UNCHANGED <<pc, driver, args, files, env, remote, steps, exit_status,
                   processed, answer, restOfPipe>>

\* delete_all_gitee_repos.main: the repositories are deleted in parallel
DeleteRepos ==
    /\ ChildAt(DELETE_SCRIPT, "delete")
    /\ remote' = "deleted"
    /\ ChildExits(0)
    /\ UNCHANGED <<pc, driver, args, files, env, steps, exit_status,
                   processed, answer, restOfPipe>>

\* the other scripts end with status 0, or with another status
ChildRuns ==
    /\ PipeAt("run_step")
    /\ child.script # DELETE_SCRIPT
    /\ child.at = "main"
    /\ \E rc \in {0, 1, 2} : ChildExits(rc)
    /\ UNCHANGED <<pc, driver, args, files, env, remote, steps, exit_status,
                   processed, answer, restOfPipe>>

\* the position of main() after the step of the script
AfterStep(script) ==
    IF script = DELETE_SCRIPT THEN "step 2"
    ELSE IF script = "gen_template_specs.py" THEN "step 4"
    ELSE IF script = "gen_tarballs.py" THEN "step 5"
    ELSE IF script = "fix_specs.py" THEN "step 6"
    ELSE "done"

\* a run_step that goes on whatever the status was (allow_failure=True)
step_fails_allowing_failure(rc) == FALSE

\* run_step after subprocess.run: a status other than 0 ends the program
step_fails(rc) == rc # 0

PipeStepReturns ==
    /\ PipeAt("run_step")
    /\ child.at = "exited"
    /\ steps' = [steps EXCEPT ![Len(steps)].rc = child.rc]
    /\ IF step_fails(child.rc)
       THEN Exit(child.rc)
       ELSE pc' = AfterStep(child.script) /\ exit_status' = exit_status
    /\ UNCHANGED <<driver, args, files, env, remote, child, processed, answer, restOfPipe>>

\* Step 2: shutil.rmtree(repos_dir) and os.makedirs(repos_dir, exist_ok=True);
\* an OSError is caught nowhere
PipeCleanRepos ==
    /\ PipeAt("step 2")
    /\ IF args.no_clean_repos
       THEN /\ pc' = "step 3"
            /\ UNCHANGED <<files, steps, exit_status>>
       ELSE \E r \in {"ok", "OSError"} :
                IF r = "ok"
                THEN /\ files' = (files \ {OLD_REPOS}) \cup {REPOS}
                     /\ steps' = Append(steps, [name |-> "clean repos", rc |-> 0])
                     /\ pc' = "step 3"
                     /\ exit_status' = exit_status
                ELSE /\ files' = files
                     /\ steps' = Append(steps, [name |-> "clean repos", rc |-> 1])
                     /\ Exit(1)
    /\ UNCHANGED <<driver, args, env, remote, child, processed, answer, restOfPipe>>

\* Steps 3 to 5: a missing script ends the program with status 1
PipeRunScript(at, name, script) ==
    /\ PipeAt(at)
    /\ IF script \in files
       THEN run_step(name, script, <<>>)
       ELSE /\ Exit(1)
            /\ UNCHANGED <<child, steps>>
    /\ UNCHANGED <<driver, args, files, env, remote, processed, answer, restOfPipe>>

PipeGenTemplateSpecs == PipeRunScript("step 3", "gen_template_specs", "gen_template_specs.py")

PipeGenTarballs == PipeRunScript("step 4", "gen_tarballs", "gen_tarballs.py")

PipeFixSpecs == PipeRunScript("step 5", "fix_specs", "fix_specs.py")

\* answer = input(...).strip().lower(); if answer not in ("y", "yes"): sys.exit(0)
agreed(text) == lower(Strip(text)) \in {<<"y">>, <<"yes">>}

\* Step 6: the user is asked; the upload needs the credentials and the script
PipeAskUpload ==
    /\ PipeAt("step 6")
    /\ \E typed \in Answers :
           /\ answer' = typed
           /\ IF typed = <<>>
              THEN Exit(1) /\ UNCHANGED <<child, steps>>
              ELSE IF ~agreed(input_line(typed))
              THEN Exit(0) /\ UNCHANGED <<child, steps>>
              ELSE IF ~env \/ UPLOAD_SCRIPT \notin files
              THEN Exit(1) /\ UNCHANGED <<child, steps>>
              ELSE run_step("upload", UPLOAD_SCRIPT, <<>>)
    /\ UNCHANGED <<driver, args, files, env, remote, processed, restOfPipe>>

\* main() returns after the upload
PipeDone ==
    /\ PipeAt("done")
    /\ Exit(0)
    /\ UNCHANGED <<driver, args, files, env, remote, child, steps, processed, answer,
                   restOfPipe>>

\* main() of a script started on its own is at position at
ScriptAt(at) ==
    /\ driver \in ListScripts
    /\ pc = at

\* the start of main(): gen_tarballs makes repos/ first; a missing package
\* list ends the program with status 1
ScriptCheckPkgList ==
    /\ ScriptAt("main")
    /\ files' = IF driver = "gen_tarballs" THEN files \cup {REPOS} ELSE files
    /\ IF PKG_LIST \in files
       THEN /\ pc' = IF driver = "fix_specs" THEN "repos_root" ELSE "packages"
            /\ exit_status' = exit_status
       ELSE Exit(1)
    /\ UNCHANGED <<driver, args, env, remote, child, steps, processed, answer, restOfPipe>>

\* fix_specs.main: if not os.path.isdir(repos_root): sys.exit(1)
ScriptCheckReposDir ==
    /\ ScriptAt("repos_root")
    /\ IF REPOS \in files
       THEN pc' = "packages" /\ exit_status' = exit_status
       ELSE Exit(1)
    /\ UNCHANGED <<driver, args, files, env, remote, child, steps, processed, answer,
                   restOfPipe>>

\* the list is loaded and the packages are processed (the subject of the
\* batch drivers above); main() returns
ScriptPackages ==
    /\ ScriptAt("packages")
    /\ processed' = TRUE
    /\ Exit(0)
    /\ UNCHANGED <<driver, args, files, env, remote, child, steps, answer, restOfPipe>>

NextPipeline ==
    \/ PipeCheckPkgList
    \/ PipeDeleteRemote
    \/ DeleteStart
    \/ DeleteReturns
    \/ DeleteListRepos
    \/ DeleteConfirm
    \/ DeleteRepos
    \/ ChildRuns
    \/ PipeStepReturns
    \/ PipeCleanRepos
    \/ PipeGenTemplateSpecs
    \/ PipeGenTarballs
    \/ PipeFixSpecs
    \/ PipeAskUpload
    \/ PipeDone
    \/ ScriptCheckPkgList
    \/ ScriptCheckReposDir
    \/ ScriptPackages

SpecPipeline == InitPipeline /\ [][NextPipeline]_vars

-----------------------------------------------------------------------------
(* upload_to_gitee.py: main() submits one process_one_package per entry to  *)
(* a pool of worker threads, collects the results as they complete and      *)
(* writes eulermaker_links.txt                                              *)

\* eulermaker_links.txt left by an earlier run
OldLinks == [exists |-> TRUE, entries |-> <<"a">>, error |-> FALSE]

InitUpload ==
    /\ driver = "upload_to_gitee"
    /\ pkg_list \in SeqsUpTo(ListLines, MaxListLines)
    /\ pkgs = load_pkg_list(pkg_list)
    /\ force = FALSE
    /\ tasks = [i \in 1..Len(pkgs) |-> NewTask]
    /\ count = ZeroCount
    /\ repos = [n \in Names |-> EmptyRepo]
    /\ pc = "run"
    /\ \E dry \in BOOLEAN : PipeIdle([DefaultArgs EXCEPT !.dry_run = dry])
    /\ gitee \in [Names -> {"none", "private"}]
    /\ link_entries = <<>>
    /\ links_file \in {NoLinks, OldLinks}
    /\ success = 0
    /\ failed = 0
    /\ NoText
    /\ NoWalk
    /\ NoNaming
    /\ NoList

UploadTask(i, at) ==
    /\ driver = "upload_to_gitee"
    /\ pc = "run"
    /\ i \in 1..Len(pkgs)
    /\ tasks[i].pc = at

\* positions at which process_one_package occupies a worker thread
Uploading == {"init", "create", "push", "public"}

\* process_one_package goes on to the next step only when the step returned
\* True: `if not ok: return False, None`
after_step_ignoring_result(r, next) == next

after_step(r, next) == IF r = "ok" THEN next ELSE "returned"

\* the task after a step of process_one_package that ended with r
StepDone(t, step, r, next) ==
    LET logged == [t EXCEPT !.io = Append(@, <<step, r>>)]
    IN  IF r = "raised" THEN Raised(logged)
        ELSE IF after_step(r, next) = "returned"
        THEN Returned(logged, IF r = "ok" THEN "ok" ELSE "failed")
        ELSE [logged EXCEPT !.pc = after_step(r, next)]

\* total == 0: main() returns before the pool is created, nothing is written
UploadNothingToDo ==
    /\ driver = "upload_to_gitee"
    /\ pc = "run"
    /\ Len(pkgs) = 0
    /\ pc' = "returned"
    /\ UNCHANGED <<textVars, batchVars, walkVars, extVars>>

\* a free worker takes the task: repos/<pkg_name> and its .git are tested
UploadStart(i) ==
    /\ UploadTask(i, "queued")
    /\ Cardinality({j \in 1..Len(pkgs) : tasks[j].pc \in Uploading}) < workers
    /\ \E local_dir \in {"not a dir", "no .git", "git repository"} :
           tasks' = [tasks EXCEPT ![i] =
                        IF local_dir = "not a dir" THEN Returned(@, "failed")
                        ELSE IF local_dir = "no .git" THEN [@ EXCEPT !.pc = "init"]
                        ELSE [@ EXCEPT !.pc = "create"]]
    /\ UNCHANGED <<pc, textVars, driver, pkg_list, pkgs, force, count, repos, walkVars,
                   extVars>>

\* init_git_repo: git init, git add, git commit; with --dry-run run_git
\* returns 0 without running anything
UploadInitGitRepo(i) ==
    /\ UploadTask(i, "init")
    /\ \E r \in (IF args.dry_run THEN {"ok"} ELSE {"ok", "failed"}) :
           tasks' = [tasks EXCEPT ![i] = StepDone(@, "init", r, "create")]
    /\ UNCHANGED <<pc, textVars, driver, pkg_list, pkgs, force, count, repos, walkVars,
                   extVars>>

\* create_repo_if_needed: POST /user/repos with private=true; 200 and 201 and
\* a body that says the repository exists are a success; an exception other
\* than HTTPError and URLError leaves the task
UploadCreateRepo(i) ==
    /\ UploadTask(i, "create")
    /\ \E r \in (IF args.dry_run THEN {"dry"}
                 ELSE {"exists", "failed", "raised"}
                          \cup (IF gitee[pkg_name(i)] = "none" THEN {"created"} ELSE {})) :
           /\ tasks' = [tasks EXCEPT ![i] =
                           StepDone(@, "create",
                                    IF r \in {"dry", "created", "exists"} THEN "ok" ELSE r,
                                    "push")]
           /\ gitee' = IF r = "created"
                       THEN [gitee EXCEPT ![pkg_name(i)] = "private"]
                       ELSE gitee
    /\ UNCHANGED <<pc, textVars, driver, pkg_list, pkgs, force, count, repos, walkVars,
                   nameVars, listVars, pipeVars, link_entries, links_file, success, failed>>

\* ensure_remote_and_push: the remote origin is set, then git push -u
UploadPush(i) ==
    /\ UploadTask(i, "push")
    /\ \E r \in (IF args.dry_run THEN {"ok"}
                 ELSE {"failed"} \cup (IF gitee[pkg_name(i)] # "none" THEN {"ok"} ELSE {})) :
           tasks' = [tasks EXCEPT ![i] = StepDone(@, "push", r, "public")]
    /\ UNCHANGED <<pc, textVars, driver, pkg_list, pkgs, force, count, repos, walkVars,
                   extVars>>

\* set_repo_public: PATCH /repos/<user>/<repo> with private=false; the task
\* returns (True, link_entry) after it
UploadSetPublic(i) ==
    /\ UploadTask(i, "public")
    /\ \E r \in (IF args.dry_run THEN {"dry"}
                 ELSE {"failed", "raised"}
                          \cup (IF gitee[pkg_name(i)] # "none" THEN {"patched"} ELSE {})) :
           /\ tasks' = [tasks EXCEPT ![i] =
                           StepDone(@, "public",
                                    IF r \in {"dry", "patched"} THEN "ok" ELSE r,
                                    "returned")]
           /\ gitee' = IF r = "patched"
                       THEN [gitee EXCEPT ![pkg_name(i)] = "public"]
                       ELSE gitee
    /\ UNCHANGED <<pc, textVars, driver, pkg_list, pkgs, force, count, repos, walkVars,
                   nameVars, listVars, pipeVars, link_entries, links_file, success, failed>>

\* as_completed: main() takes the result of a finished task, whichever is
\* ready; an exception of the task and a False result count as failed
UploadCollect(i) ==
    /\ driver = "upload_to_gitee"
    /\ pc = "run"
    /\ i \in 1..Len(pkgs)
    /\ tasks[i].pc \in {"returned", "raised"}
    /\ tasks' = [tasks EXCEPT ![i].pc = "counted"]
    /\ IF tasks[i].pc = "returned" /\ tasks[i].status = "ok"
       THEN /\ success' = success + 1
            /\ link_entries' = Append(link_entries, pkg_name(i))
            /\ failed' = failed
       ELSE /\ failed' = failed + 1
            /\ UNCHANGED <<success, link_entries>>
    /\ UNCHANGED <<pc, textVars, driver, pkg_list, pkgs, force, count, repos, walkVars,
                   nameVars, listVars, pipeVars, gitee, links_file>>

\* what eulermaker_links.txt can hold after an OSError, which main() reports:
\* the old file when open() failed, a part of the new one when a write failed
PartialLinks ==
    {[links_file EXCEPT !.error = TRUE]}
        \cup {[exists |-> TRUE, entries |-> SubSeq(link_entries, 1, k), error |-> TRUE] :
                  k \in 0..(Len(link_entries) - 1)}

\* all results are in: eulermaker_links.txt is written from link_entries (an
\* OSError is reported), then the summary is printed
UploadWriteLinks ==
    /\ driver = "upload_to_gitee"
    /\ pc = "run"
    /\ Len(pkgs) > 0
    /\ \A i \in 1..Len(pkgs) : tasks[i].pc = "counted"
    /\ \/ links_file' = [exists |-> TRUE, entries |-> link_entries, error |-> FALSE]
       \/ links_file' \in PartialLinks
    /\ pc' = "summary"
    /\ UNCHANGED <<textVars, batchVars, walkVars, nameVars, listVars, pipeVars,
                   gitee, link_entries, success, failed>>

NextUpload ==
    \/ UploadNothingToDo
    \/ \E i \in 1..Len(pkgs) : UploadStart(i)
    \/ \E i \in 1..Len(pkgs) : UploadInitGitRepo(i)
    \/ \E i \in 1..Len(pkgs) : UploadCreateRepo(i)
    \/ \E i \in 1..Len(pkgs) : UploadPush(i)
    \/ \E i \in 1..Len(pkgs) : UploadSetPublic(i)
    \/ \E i \in 1..Len(pkgs) : UploadCollect(i)
    \/ UploadWriteLinks

SpecUpload == InitUpload /\ [][NextUpload]_vars

-----------------------------------------------------------------------------
(* Vocabulary of the properties *)

Max(a, b) == IF a >= b THEN a ELSE b

MinOf(S) == CHOOSE x \in S : \A y \in S : x <= y

\* indices of the lines that begin with Name:
NameLines(s) == {i \in 1..Len(s) : AtLineStart(s, i) /\ s[i] = "Name:"}

\* indices of the lines that begin with Source0: or Source:
SourceLines(s) == {i \in 1..Len(s) : AtLineStart(s, i) /\ s[i] \in {"Source0:", "Source:"}}

\* indices of the lines that open a %files section
FilesHeaders(s) == {i \in 1..Len(s) : AtLineStart(s, i) /\ s[i] = "%files"}

\* indices of the %changelog header lines
ChangelogHeaders(s) ==
    {i \in 1..Len(s) :
        /\ AtLineStart(s, i)
        /\ s[i] = "%changelog"
        /\ (i + 1 > Len(s) \/ ~WordStart(s[i + 1]))}

\* indices of the lines that are a debug-disable directive
DebugDirectives(s) ==
    {i \in 1..Len(s) :
        /\ AtLineStart(s, i)
        /\ s[i] \in {"%global", "%define"}
        /\ i + 2 <= Len(s)
        /\ s[i + 1] = SP
        /\ s[i + 2] = "debug_package"}

\* indices of the header lines of section h (%build, %install, %check)
SectionHeaders(s, h) ==
    {i \in 1..Len(s) :
        /\ AtLineStart(s, i)
        /\ s[i] = h
        /\ (i + 1 > Len(s) \/ ~WordStart(s[i + 1]))}

Sections == {"%build", "%install", "%check"}

\* the environment block stands directly after the header line that starts at i
BlockDirectlyAfter(s, i) ==
    LET e == LineEnd(s, i)
        b == block(ros_prefix)
    IN  e + Len(b) <= Len(s) /\ SubSeq(s, e + 1, e + Len(b)) = b

MarkerCount(s) == Cardinality({i \in 1..Len(s) : HasMarkerAt(s, i)})

\* the lines of a text that are not blank
BodyLines(s) == SelectSeq(SplitLines(s), LAMBDA l : Strip(l) # <<>>)

RemoveAt(ls, k) == SubSeq(ls, 1, k - 1) \o SubSeq(ls, k + 1, Len(ls))

\* only lines that begin with a key of K differ, or exactly one line was added
OnlyFieldLineChanged(before, after, K) ==
    LET a == BodyLines(before)
        b == BodyLines(after)
        field(l) == l # <<>> /\ l[1] \in K
    IN  IF \E k \in 1..Len(a) : field(a[k])
        THEN /\ Len(b) = Len(a)
             /\ \A k \in 1..Len(a) : b[k] # a[k] => field(a[k])
        ELSE /\ Len(b) = Len(a) + 1
             /\ \E k \in 1..Len(b) : RemoveAt(b, k) = a

\* every line that begins with a key of K, except the first such line, is unchanged
LaterFieldLinesKept(before, after, K) ==
    LET a == SplitLines(before)
        b == SplitLines(after)
        idx == {k \in 1..Len(a) : a[k] # <<>> /\ a[k][1] \in K}
    IN  \A k \in idx : k # MinOf(idx) => k <= Len(b) /\ b[k] = a[k]

-----------------------------------------------------------------------------
(* Properties *)

\* C1: running the full pipeline on the text written by a first run writes
\* the same text again, byte for byte.
C1_SecondRunChangesNothing ==
    (pc = "find_input_spec" /\ runs >= 2) => spec = first

\* C2: each transform taken alone is idempotent: applied to its own result
\* it changes nothing.
C2_EachTransformIdempotent ==
    (Len(applied) = 2 /\ applied[1] = applied[2]) => doc = prev

\* C3: after patch_spec_text exactly one line opens a %files section.
C3_ExactlyOneFilesSection ==
    pc = "write" => Cardinality(FilesHeaders(doc)) = 1

\* C4: after patch_spec_text exactly one line of its own is a debug-disable
\* directive.
C4_ExactlyOneDebugDirective ==
    pc = "write" => Cardinality(DebugDirectives(doc)) = 1

C6_OnlyTheFieldLineChanges ==
    /\ applied = <<"fix_name">> => OnlyFieldLineChanged(input, doc, {"Name:"})
    /\ applied = <<"fix_source0">> =>
           OnlyFieldLineChanged(input, doc, {"Source0:", "Source:"})

\* C7: when several lines match the anchor, fix_name and fix_source0 rewrite
\* only the first of them and leave every later one unchanged.
C7_OnlyFirstMatchRewritten ==
    /\ applied = <<"fix_name">> => LaterFieldLinesKept(input, doc, {"Name:"})
    /\ applied = <<"fix_source0">> =>
           LaterFieldLinesKept(input, doc, {"Source0:", "Source:"})

\* the other order of fix_name and fix_source0 on the input
OtherOrder ==
    IF applied[1] = "fix_name"
    THEN fix_name(fix_source0(input), rpm_name)
    ELSE fix_source0(fix_name(input, rpm_name))

BothOrdersApplied ==
    /\ Len(applied) = 2
    /\ applied[1] # applied[2]
    /\ NameLines(input) = {}
    /\ SourceLines(input) = {}

C9_BlockInEverySectionPresent ==
    /\ (pc = "write" /\ ~HasMarker(input)) =>
           LET present == {h \in Sections : SectionHeaders(doc, h) # {}}
           IN  /\ \A h \in present :
                      BlockDirectlyAfter(doc, MinOf(SectionHeaders(doc, h)))
               /\ MarkerCount(doc) = Cardinality(present)
    /\ (pc = "fix_files_section" /\ HasMarker(prev)) => doc = prev

\* a %files header is followed later by a %changelog header
FilesThenChangelog(s) ==
    \E f \in FilesHeaders(s) : \E c \in ChangelogHeaders(s) : c > f

\* C10: with a %files header followed later by a %changelog header,
\* fix_files_section replaces the text from the first %files header up to,
\* not including, the next %changelog header by the line %files and one line
\* holding the target prefix; the text before and the text from that
\* %changelog header onward are unchanged.
C10_FilesSectionReplaced ==
    (applied = <<"fix_files_section">> /\ FilesThenChangelog(input)) =>
        LET f == MinOf(FilesHeaders(input))
            c == MinOf({k \in ChangelogHeaders(input) : k > f})
        IN  doc = SubSeq(input, 1, f - 1)
                      \o <<"%files", NL, ros_prefix, NL>>
                      \o SubSeq(input, c, Len(input))

C10_Witness ==
    /\ applied = <<"fix_files_section">>
    /\ FilesThenChangelog(input)
    /\ MinOf(FilesHeaders(input)) > 1
    /\ Cardinality(FilesHeaders(input)) = 2
    /\ doc # input

RECURSIVE SkipBlank(_, _)
\* first index >= i that holds no blank of the same line
SkipBlank(s, i) ==
    IF i > Len(s) \/ s[i] \notin {SP, PAD} THEN i ELSE SkipBlank(s, i + 1)

\* end of the old value that starts at a: a quoted value runs to its closing
\* quote, an unquoted one to the next whitespace
OldValueEnd(s, a) ==
    IF a <= Len(s) /\ s[a] = QUOTE /\ NextQuote(s, a + 1) <= LineEnd(s, a) - 1
    THEN NextQuote(s, a + 1) + 1
    ELSE SkipValue(s, a)

RECURSIVE FlagsRewritten(_, _, _)
\* the text in which every prefix-bearing flag and its old value, and nothing
\* else, is replaced by FLAG="<prefix>"
FlagsRewritten(s, i, prefix) ==
    IF i > Len(s) THEN <<>>
    ELSE IF s[i] \in CmakeFlags /\ i + 1 <= Len(s) /\ s[i + 1] \in {EQ, SP, PAD}
         THEN LET a == IF s[i + 1] = EQ THEN i + 2 ELSE SkipBlank(s, i + 1)
                  e == OldValueEnd(s, a)
              IN  IF s[i + 1] # EQ /\ e = a
                  THEN <<s[i]>> \o FlagsRewritten(s, i + 1, prefix)
                  ELSE <<s[i], EQ, QUOTE, prefix, QUOTE>> \o FlagsRewritten(s, e, prefix)
         ELSE <<s[i]>> \o FlagsRewritten(s, i + 1, prefix)

\* C11: after fix_cmake_prefixes every prefix-bearing flag joined to a value
\* by = or by blanks reads FLAG="<prefix>", whether the old value was
\* unquoted, quoted, or quoted with a space inside; nothing of the old value
\* remains and no text beyond it (the next argument, the next line) is consumed.
C11_EveryPrefixFlagRewritten ==
    applied = <<"fix_cmake_prefixes">> => doc = FlagsRewritten(input, 1, ros_prefix)

PrefixArg(prefix) == <<"--prefix", SP, QUOTE, prefix, QUOTE>>

\* the line carries the argument --prefix "<prefix>"
CarriesPrefix(l, prefix) ==
    \E i \in 1..Len(l) :
        /\ l[i] = "--prefix"
        /\ i + 4 <= Len(l)
        /\ l[i + 1] \in {SP, EQ}
        /\ SubSeq(l, i + 2, i + 4) = <<QUOTE, prefix, QUOTE>>

\* line o is line l with the value of its --prefix argument replaced
PrefixValueReplaced(l, o, prefix) ==
    \E i \in 1..Len(l) :
        /\ l[i] = "--prefix"
        /\ i + 1 <= Len(l)
        /\ LET a == IF l[i + 1] = EQ THEN i + 2 ELSE SkipBlank(l, i + 1)
           IN  o = SubSeq(l, 1, a - 1) \o <<QUOTE, prefix, QUOTE>>
                       \o Tail2(l, OldValueEnd(l, a))

\* line o is line l with the argument appended, after a separator -- when
\* l has no separator token
PrefixAppended(l, o, prefix) ==
    DropNL(o) = DropNL(l)
                    \o (IF "--" \in Range(l) THEN <<>> ELSE <<SP, "--">>)
                    \o <<SP>> \o PrefixArg(prefix)

Py3LineFixed(l, o, prefix) ==
    IF "%py3_install" \notin Range(l) THEN o = l
    ELSE /\ CarriesPrefix(o, prefix)
         /\ IF "--prefix" \in Range(l)
            THEN PrefixValueReplaced(l, o, prefix)
            ELSE PrefixAppended(l, o, prefix)

\* C12: after fix_py3_install every line that invokes %py3_install carries
\* --prefix "<prefix>": the value of an existing --prefix argument is
\* replaced, otherwise the argument is appended, after a separator -- when
\* the line has no separator token yet (another --long-option is no separator).
C12_EveryPy3LineCarriesPrefix ==
    applied = <<"fix_py3_install">> =>
        LET a == SplitKeep(input)
            b == SplitKeep(doc)
        IN  /\ Len(b) = Len(a)
            /\ \A k \in 1..Len(a) : Py3LineFixed(a[k], b[k], ros_prefix)

\* indices of the lines (of SplitKeep) that start with %bcond_without
BcondLines(lines) ==
    {k \in 1..Len(lines) : StartsWith(LStrip(lines[k]), "%bcond_without")}

\* first index at which the text of the inserted directive stands
DirectiveTextAt(s) ==
    MinOf({i \in 1..Len(s) :
              i + 4 <= Len(s) /\ SubSeq(s, i, i + 4) = SubSeq(debug_line, 1, 5)})

DirectiveInserted ==
    /\ applied = <<"ensure_debug_disabled">>
    /\ ~HasDebugDirective(input)

C14_NoFaultEndsTheRun ==
    /\ pc # "crashed"
    /\ pc = "summary" => \A i \in 1..Len(pkgs) : tasks[i].counted # <<>>

\* the counters that hold the outcome of an entry, per driver
OutcomeCounters ==
    IF driver = "gen_template_specs" THEN {"bloom_ok", "bloom_error", "bloom_timeout"}
    ELSE IF driver = "gen_tarballs"
    THEN {"git_ok", "fb_ok", "skipped_exist", "no_version", "no_git", "failed"}
    ELSE IF driver = "fix_specs" THEN {"patched", "skipped"}
    ELSE {}

RECURSIVE SumOver(_)
\* the sum of the counters of set S
SumOver(S) ==
    IF S = {} THEN 0
    ELSE LET c == CHOOSE x \in S : TRUE IN count[c] + SumOver(S \ {c})

\* the outcome counters incremented for entry i
OutcomesOf(i) ==
    {k \in 1..Len(tasks[i].counted) : tasks[i].counted[k] \in OutcomeCounters}

\* the lines of the list that are well formed
WellFormed ==
    {k \in 1..Len(pkg_list) :
        pkg_list[k] # <<>> /\ pkg_list[k][1] # "#" /\ Len(pkg_list[k]) >= 2}

\* C15: when a driver prints its summary, every well-formed entry of the list
\* has exactly one outcome and the outcome counters sum to the number of
\* entries (= total), in whatever order the tasks completed; at every moment
\* each outcome counter equals the number of entries counted in it.
C15_CountersSumToTotal ==
    /\ \A c \in OutcomeCounters :
           count[c] = Cardinality({i \in 1..Len(pkgs) :
                                      \E k \in OutcomesOf(i) : tasks[i].counted[k] = c})
    /\ pc = "summary" =>
           /\ Len(pkgs) = Cardinality(WellFormed)
           /\ count["total"] = Len(pkgs)
           /\ \A i \in 1..Len(pkgs) : Cardinality(OutcomesOf(i)) = 1
           /\ SumOver(OutcomeCounters) = count["total"]

C15_Witness ==
    /\ pc = "summary"
    /\ driver = "gen_template_specs"
    /\ Len(pkgs) = 2
    /\ tasks[1].pc = "counted" /\ tasks[1].counted = <<"bloom_error">>
    /\ tasks[2].counted = <<"bloom_ok", "copied">>
    /\ count["bloom_error"] = 1 /\ count["bloom_ok"] = 1

\* the generator call of task i ended without exit code 0 for another reason
\* than the timeout
BloomFailed(i) == tasks[i].gen \in {"nonzero", "FileNotFoundError", "not a dir"}

BloomTimedOut(i) == tasks[i].gen = "TimeoutExpired"

\* C16: in gen_template_specs a generator call that exceeds the timeout is
\* ended and its package is reported as timeout and counted only in
\* bloom_timeout, never as error or ok, and no template.spec is copied for
\* it; a non-zero exit or a missing generator is reported as error, never as
\* timeout.
C16_TimeoutIsNotError ==
    driver = "gen_template_specs" =>
        /\ \A i \in 1..Len(pkgs) :
               /\ BloomTimedOut(i) =>
                      /\ tasks[i].pc \in {"returned", "counted"}
                      /\ tasks[i].status = "timeout"
                      /\ tasks[i].copy_status = "none"
                      /\ tasks[i].counted =
                             IF tasks[i].pc = "counted" THEN <<"bloom_timeout">> ELSE <<>>
               /\ BloomFailed(i) =>
                      /\ tasks[i].status = "error"
                      /\ tasks[i].copy_status = "none"
                      /\ tasks[i].counted =
                             IF tasks[i].pc = "counted" THEN <<"bloom_error">> ELSE <<>>
               /\ tasks[i].status = "timeout" => BloomTimedOut(i)
        /\ \A n \in Names :
               (\A i \in 1..Len(pkgs) : pkg_name(i) = n => BloomTimedOut(i) \/ BloomFailed(i))
                   => repos[n].template \in {"none", "old"}

C16_Witness ==
    /\ driver = "gen_template_specs"
    /\ pc = "summary"
    /\ Len(pkgs) = 2
    /\ BloomTimedOut(1) /\ tasks[1].counted = <<"bloom_timeout">>
    /\ BloomFailed(2) /\ tasks[2].counted = <<"bloom_error">>
    /\ count["bloom_timeout"] = 1 /\ count["bloom_error"] = 1 /\ count["bloom_ok"] = 0
    /\ repos[pkg_name(1)].template = "none"

\* C17: for every package list, no two tasks of gen_template_specs that run
\* at the same time run the generator in the same directory, and no two are
\* at the same time between the test and the write of the same destination
\* file repos/<name>/template.spec.
C17_TasksIndependent ==
    driver = "gen_template_specs" =>
        \A i, j \in 1..Len(pkgs) :
            i # j =>
                /\ ~(/\ tasks[i].pc = "bloom"
                     /\ tasks[j].pc = "bloom"
                     /\ pkg_path(i) = pkg_path(j))
                /\ ~(/\ tasks[i].pc \in {"copy_dst", "copyfile"}
                     /\ tasks[j].pc \in {"copy_dst", "copyfile"}
                     /\ pkg_name(i) = pkg_name(j))

\* the strategies process_package invoked for entry i, with their results
GitFailed == <<"git", FALSE>>
GitOk == <<"git", TRUE>>
FallbackFailed == <<"fallback", FALSE>>
FallbackOk == <<"fallback", TRUE>>

\* the task is past find_git_root
PastGitRoot(i) ==
    tasks[i].tried # <<>> \/ tasks[i].pc \in {"git_archive", "fallback"}

\* C18: process_package tries the native git export first whenever a git root
\* is found; the fallback runs only after the native export failed or when
\* there is no git root, never after a successful native export; a native
\* failure alone is not fatal, and the outcome is failed only when every
\* strategy that was tried has failed.
C18_NativeFirstThenFallback ==
    driver = "gen_tarballs" =>
        \A i \in 1..Len(pkgs) :
            LET t == tasks[i]
                done == t.pc \in {"returned", "counted"}
            IN  /\ (PastGitRoot(i) /\ t.git_root) =>
                       IF t.tried = <<>> THEN t.pc = "git_archive"
                       ELSE t.tried[1][1] = "git"
                /\ \A k \in 1..Len(t.tried) :
                       t.tried[k][1] = "fallback" =>
                           \/ k = 1 /\ ~t.git_root
                           \/ k = 2 /\ t.tried[1] = GitFailed
                /\ t.tried = <<GitOk>> => t.status = "git-ok"
                /\ (done /\ t.tried = <<GitFailed, FallbackOk>>) => t.status = "fallback-ok"
                /\ t.tried = <<GitFailed>> => t.pc = "fallback"
                /\ t.status = "failed" => \A k \in 1..Len(t.tried) : ~t.tried[k][2]
                /\ (done /\ t.tried # <<>> /\ \A k \in 1..Len(t.tried) : ~t.tried[k][2])
                       => t.status = "failed"

C18_Witness ==
    /\ driver = "gen_tarballs"
    /\ \E i \in 1..Len(pkgs) :
           /\ tasks[i].git_root
           /\ tasks[i].tried = <<GitFailed, FallbackOk>>
           /\ tasks[i].counted = <<"fb_ok">>
           /\ repos[pkg_name(i)].archive = "fallback"
    /\ count["failed"] = 0

\* C19: when the destination archive exists and force is not set,
\* process_package invokes neither strategy, leaves the file as it was and
\* returns skipped-exist, which main counts in skipped_exist and not in
\* failed; with force set the strategies are invoked again.
C19_ExistingArchiveSkipped ==
    driver = "gen_tarballs" =>
        \A i \in 1..Len(pkgs) :
            LET t == tasks[i]
                existed == t.before # "none"
            IN  /\ (existed /\ ~force) =>
                       /\ t.tried = <<>>
                       /\ t.pc \notin {"find_git_root", "git_archive", "fallback"}
                       /\ t.pc \in {"returned", "counted"} =>
                              t.status \in {"skipped-exist", "no-version"}
                       /\ repos[pkg_name(i)].archive = t.before
                /\ t.status = "skipped-exist" =>
                       /\ existed /\ ~force
                       /\ t.counted = IF t.pc = "counted" THEN <<"skipped_exist">> ELSE <<>>
                /\ (existed /\ force /\ t.pc \in {"returned", "counted"}
                       /\ t.status # "no-version") => t.tried # <<>>

C19_Witness ==
    /\ driver = "gen_tarballs"
    /\ ~force
    /\ pc = "summary"
    /\ Len(pkgs) = 2
    /\ pkg_name(1) # pkg_name(2)
    /\ tasks[1].before = "old" /\ tasks[1].counted = <<"skipped_exist">>
    /\ repos[pkg_name(1)].archive = "old"
    /\ tasks[2].before = "none" /\ tasks[2].counted = <<"git_ok">>
    /\ count["failed"] = 0 /\ count["skipped_exist"] = 1

\* the entries of the tree, the tree root included, that have no path
\* component named .git
EntriesOutsideGit == {e \in tree \cup {<<>>} : ".git" \notin Range(e)}

\* C20: the archive built by run_fallback_tar_archive lists exactly the
\* entries of the package directory tree, with the tree root replaced by the
\* prefix directory, minus the entries that have a path component named
\* .git: nothing under a .git directory is included, nothing else (such as
\* .gitignore) is dropped, and no entry is listed twice.
C20_FallbackListsTreeWithoutGit ==
    pc = "return True" =>
        /\ Range(members) = {<<prefix_dir>> \o e : e \in EntriesOutsideGit}
        /\ Len(members) = Cardinality(EntriesOutsideGit)

C20_Witness ==
    /\ pc = "return True"
    /\ {<<".git">>, <<".gitignore">>, <<"src">>} \subseteq tree
    /\ \E e \in tree : Len(e) = 2 /\ e[2] = ".git"
    /\ <<prefix_dir, ".gitignore">> \in Range(members)
    /\ Len(members) = 3

\* the manifest of entry i gave no version
Unresolvable(i) == tasks[i].xml \in Manifests \ {"version"}

\* C21: when package.xml is absent, unparsable or has no version element, the
\* resolved version is the fallback "0.0.0" and the caller does not give the
\* package up: process_package goes on towards the archive with that version.
C21_UnresolvedVersionDefaults ==
    driver = "gen_tarballs" =>
        \A i \in 1..Len(pkgs) :
            Unresolvable(i) =>
                /\ tasks[i].version = "0.0.0"
                /\ tasks[i].status # "no-version"

\* the name with each "_" replaced by "-", piece by piece
RECURSIVE Hyphenated(_)
Hyphenated(n) ==
    IF n = <<>> THEN <<>>
    ELSE <<IF Head(n) = "_" THEN "-" ELSE Head(n)>> \o Hyphenated(Tail(n))

\* ros-<distro>-<name with each '_' replaced by '-'>
Identifier == "ros-" \o naming.ros_distro \o "-" \o Str(Hyphenated(naming.pkg_name))

\* C22: gen_tarballs and fix_specs derive the same identifier
\* ros-<distro>-<hyphenated name>; the archive file name is
\* <identifier>_<version>.orig.tar.gz, which is what the Source0 line expands
\* to with the Name line fix_specs wrote; the internal root directory of the
\* archive is <identifier>-<version> under both strategies.
C22_NamesAgree ==
    pc = "naming" =>
        /\ naming.ros_pkg_name # <<>> =>
              /\ Str(naming.ros_pkg_name) = Identifier
              /\ Str(naming.tarball_name) =
                     Identifier \o "_" \o naming.version \o ".orig.tar.gz"
        /\ naming.rpm_name # <<>> =>
              /\ Str(naming.rpm_name) = Identifier
              /\ Str(naming.Name) = Identifier
        /\ (naming.ros_pkg_name # <<>> /\ naming.rpm_name # <<>>) =>
              Str(Expand(naming.Source0, naming.Name, naming.version))
                  = Str(naming.tarball_name)
        /\ naming.git_root # <<>> =>
              Str(naming.git_root) = Identifier \o "-" \o naming.version
        /\ naming.fallback_root # <<>> =>
              Str(naming.fallback_root) = Identifier \o "-" \o naming.version

\* the names of foo_bar, jazzy, 1.2.3
C22_Witness ==
    /\ pc = "naming"
    /\ naming.pkg_name = <<"foo", "_", "bar">>
    /\ naming.ros_distro = "jazzy"
    /\ naming.version = "1.2.3"
    /\ Str(naming.ros_pkg_name) = "ros-jazzy-foo-bar"
    /\ Str(naming.rpm_name) = "ros-jazzy-foo-bar"
    /\ Str(naming.tarball_name) = "ros-jazzy-foo-bar_1.2.3.orig.tar.gz"
    /\ Str(Expand(naming.Source0, naming.Name, naming.version))
           = "ros-jazzy-foo-bar_1.2.3.orig.tar.gz"
    /\ Str(naming.git_root) = "ros-jazzy-foo-bar-1.2.3"
    /\ Str(naming.fallback_root) = "ros-jazzy-foo-bar-1.2.3"

\* the template output file of entry i was found after the generator exited
TemplateProduced(i) == tasks[i].copy_status \in {"copied", "skipped-existing"}

\* C23: a package counts as a generator success ("bloom OK") only when the
\* generator exited with code 0 and <pkg_root>/rpm/template.spec exists; a run
\* that exits 0 without that file is not counted as a success.
C23_SuccessNeedsTemplate ==
    driver = "gen_template_specs" =>
        \A i \in 1..Len(pkgs) :
            (tasks[i].pc = "counted" /\ "bloom_ok" \in Range(tasks[i].counted)) =>
                /\ tasks[i].gen = "exit 0"
                /\ TemplateProduced(i)

\* the line is blank or a comment
BlankOrComment(l) == Len(l) = 0 \/ (Len(l) > 0 /\ l[1] \in {"#", "#b"})

\* the numbers of the lines of the list that hold an entry
EntryLineNos(n) == {k \in 1..n : ~BlankOrComment(pkg_list[k]) /\ Len(pkg_list[k]) >= 2}

\* the numbers of the lines of the list that hold a single field
SingleFieldLineNos(n) == {k \in 1..n : ~BlankOrComment(pkg_list[k]) /\ Len(pkg_list[k]) = 1}

\* the sequence q lists, in increasing order of line number, f of each line of S
ListsInOrder(q, S, f(_)) ==
    /\ Len(q) = Cardinality(S)
    /\ \A j \in 1..Len(q) :
           \E k \in S : /\ Cardinality({m \in S : m < k}) = j - 1
                        /\ q[j] = f(k)

EntryOfLine(k) == <<pkg_list[k][1], pkg_list[k][2]>>
NumberOfLine(k) == k

\* C24: reading the list yields, in file order, exactly one (name, path) entry
\* per line with at least two fields; blank lines and lines starting with "#"
\* give no entry and no warning; a line with a single field gives one warning
\* and no entry. The result is the list the batch drivers start from.
C24_ListEntriesAreTheWellFormedLines ==
    pc \in {"load_pkg_list", "return result"} =>
        /\ ListsInOrder(pkgs, EntryLineNos(lineno), EntryOfLine)
        /\ ListsInOrder(warnings, SingleFieldLineNos(lineno), NumberOfLine)
        /\ pc = "return result" =>
              /\ lineno = Len(pkg_list)
              /\ pkgs = load_pkg_list(pkg_list)

\* a list with one malformed line and one well-formed line
C24_Witness ==
    /\ pc = "return result"
    /\ pkg_list = <<<<"b">>, <<"a", "p">>>>
    /\ pkgs = <<<<"a", "p">>>>
    /\ warnings = <<1>>

\* C27: if process_package returns "failed" for a package whose destination
\* archive did not exist before the call, no file exists at the destination
\* afterwards (so a later run without --force builds it again). The failures
\* before any archive strategy is invoked touch no file.
C27_FailureLeavesNoArchive ==
    driver = "gen_tarballs" =>
        \A i \in 1..Len(pkgs) :
            (tasks[i].status = "failed" /\ tasks[i].tried # <<>>
                /\ tasks[i].before = "none") =>
                repos[pkg_name(i)].archive = "none"

\* C25: when the package list does not exist, run_pipeline, gen_template_specs,
\* gen_tarballs and fix_specs exit with a non-zero status before any package is
\* processed, and run_pipeline before any step (no remote repository deleted,
\* repos/ not removed); fix_specs does the same when repos/ is missing.
C25_MissingListStopsTheRun ==
    /\ (driver \in ListScripts \cup {"run_pipeline"} /\ PKG_LIST \notin files) =>
          /\ pc \in {"main", "exited"}
          /\ ~processed
          /\ steps = <<>>
          /\ remote # "deleted"
          /\ pc = "exited" => exit_status # 0
    /\ (driver = "fix_specs" /\ REPOS \notin files) =>
          /\ pc \in {"main", "repos_root", "exited"}
          /\ ~processed
          /\ pc = "exited" => exit_status # 0

\* run_pipeline has stopped on a missing list although everything else was
\* ready for the deletion and the clean-up
C25_Witness ==
    /\ driver = "run_pipeline"
    /\ pc = "exited"
    /\ exit_status = 1
    /\ PKG_LIST \notin files
    /\ OLD_REPOS \in files
    /\ DELETE_SCRIPT \in files
    /\ env
    /\ ~args.skip_delete_remote
    /\ ~args.no_clean_repos
    /\ remote = "repos"

\* C26: with the credentials set and without --skip-delete-remote, the text
\* run_pipeline feeds to delete_all_gitee_repos is accepted by the confirmation
\* prompt, so the remote repositories are deleted before repos/ is rebuilt.
C26_FedConfirmationIsAccepted ==
    (driver = "run_pipeline" /\ child.script = DELETE_SCRIPT /\ child.answer # <<>>) =>
        \/ child.at = "delete"
        \/ remote = "deleted"

\* the order of the steps in main() of run_pipeline
StepOrder ==
    <<"delete remote", "clean repos", "gen_template_specs", "gen_tarballs",
      "fix_specs", "upload">>

StepNo(name) == CHOOSE k \in 1..Len(StepOrder) : StepOrder[k] = name

\* the answers that are y or yes, whatever the case and the blanks around
YesAnswers == {<<"y", NL>>, <<"Y", NL>>, <<"yes", NL>>, <<SP, "YES", SP, NL>>}

\* C30: run_pipeline starts its steps in the fixed order delete, clean,
\* gen_template_specs, gen_tarballs, fix_specs, upload; a step starts only after
\* the step before it ended with status 0; when a step ends with another status
\* or its command is missing the pipeline exits with that status and no later
\* step runs; the upload runs only after the user answered y or yes.
C30_StepsInOrder ==
    driver = "run_pipeline" =>
        /\ \A j \in 1..(Len(steps) - 1) :
               /\ StepNo(steps[j].name) < StepNo(steps[j + 1].name)
               /\ steps[j].rc = 0
               /\ StepNo(steps[j + 1].name) > 3 =>
                      StepNo(steps[j].name) = StepNo(steps[j + 1].name) - 1
        /\ \A j \in 1..Len(steps) :
               steps[j].rc \notin {0, -1} => pc = "exited" /\ exit_status = steps[j].rc
        /\ \A j \in 1..Len(steps) :
               steps[j].name = "upload" => answer \in YesAnswers

\* the six steps have run and the pipeline has ended
C30_Witness ==
    /\ driver = "run_pipeline"
    /\ pc = "exited"
    /\ exit_status = 0
    /\ Len(steps) = 6
    /\ \A j \in 1..6 : steps[j].name = StepOrder[j] /\ steps[j].rc = 0

\* the file operations of entry i with their results
Wrote(i) == \E k \in 1..Len(tasks[i].io) : tasks[i].io[k][1] = "write"
WroteOk(i) == \E k \in 1..Len(tasks[i].io) : tasks[i].io[k] = <<"write", "ok">>
RemoveCalled(i) == \E k \in 1..Len(tasks[i].io) : tasks[i].io[k][1] = "remove"

\* C28: fix_specs removes the input template.spec only after the output has
\* been written successfully and only when input and output are different
\* files, never after a failed write; with --dry-run nothing is written and
\* nothing is removed.
C28_RemoveOnlyAfterWrite ==
    driver = "fix_specs" =>
        \A i \in 1..Len(pkgs) :
            /\ RemoveCalled(i) =>
                   /\ tasks[i].io[1] = <<"write", "ok">>
                   /\ Len(tasks[i].io) = 2
                   /\ tasks[i].before = "template.spec"
                   /\ ~tasks[i].same
            /\ (tasks[i].before = "template.spec"
                    /\ repos[pkg_name(i)].template = "none"
                    /\ \A j \in 1..Len(pkgs) : pkg_name(j) = pkg_name(i) => j <= i) =>
                   WroteOk(i) /\ ~tasks[i].same
            /\ args.dry_run =>
                   /\ tasks[i].io = <<>>
                   /\ repos[pkg_name(i)].template = "old" \/ tasks[i].before # "template.spec"

\* one entry's write failed and its template.spec is still there, another
\* entry's template.spec was removed after its output was written
C28_Witness ==
    /\ driver = "fix_specs"
    /\ Len(pkgs) = 2
    /\ pkg_name(1) # pkg_name(2)
    /\ tasks[1].io = <<<<"write", "OSError">>>>
    /\ tasks[1].before = "template.spec"
    /\ tasks[1].status = "skipped"
    /\ repos[pkg_name(1)].template = "old"
    /\ tasks[2].io = <<<<"write", "ok">>, <<"remove", "ok">>>>
    /\ tasks[2].status = "patched"
    /\ repos[pkg_name(2)].template = "none"

\* the place of a step in process_one_package
StepRank(step) ==
    CASE step = "init" -> 1
      [] step = "create" -> 2
      [] step = "push" -> 3
      [] step = "public" -> 4

\* the steps of entry i ran in order, each after the success of the one before
StepsInOrder(i) ==
    LET io == tasks[i].io
    IN  /\ io # <<>> => io[1][1] \in {"init", "create"}
        /\ \A k \in 1..(Len(io) - 1) :
               /\ io[k][2] = "ok"
               /\ StepRank(io[k + 1][1]) = StepRank(io[k][1]) + 1

\* every step of entry i succeeded
EveryStepOk(i) ==
    /\ tasks[i].io # <<>>
    /\ tasks[i].io[Len(tasks[i].io)] = <<"public", "ok">>
    /\ \A k \in 1..Len(tasks[i].io) : tasks[i].io[k][2] = "ok"

\* a sequence of package names holds one entry for every list entry of the
\* name whose steps all succeeded, and no other
EntriesOfSuccesses(entries) ==
    \A n \in Names :
        Cardinality({k \in 1..Len(entries) : entries[k] = n})
            = Cardinality({i \in 1..Len(pkgs) : pkg_name(i) = n /\ EveryStepOk(i)})

\* a repository that became public was pushed to successfully before
PublicOnlyAfterPush ==
    \A n \in Names :
        gitee[n] = "public" =>
            \E i \in 1..Len(pkgs) :
                /\ pkg_name(i) = n
                /\ \E k \in 2..Len(tasks[i].io) :
                       /\ tasks[i].io[k] = <<"public", "ok">>
                       /\ tasks[i].io[k - 1] = <<"push", "ok">>

=========================================================================
